---- MODULE Spec2Model ----
(***************************************************************************)
(* Model of the strategy execution engine of the process optimizer:        *)
(* DataContext, the skills (MathFunction, BoundsBuilderSkill, Constraints, *)
(* OptimizationSkill) and OptimizationStrategy (skill registry, variable   *)
(* lifecycle, run_cycle).                                                  *)
(*                                                                         *)
(* Numbers are integers standing for the Python floats.  An optional value *)
(* (Python None) is the empty tuple <<>>, a present value v is <<v>>.      *)
(***************************************************************************)
EXTENDS Integers, Sequences, FiniteSets, TLC

VARIABLES
    variables_config,   \* OptimizationStrategy.variables_config: id -> [type, min_hard_limit, max_hard_limit, threshold]
    skills_config,      \* OptimizationStrategy.skills_config: skill name -> configuration
    tasks_config,       \* OptimizationStrategy.tasks_config: sequence of [name, skill_sequence]
    skills,             \* OptimizationStrategy._skills: skill name -> skill instance (or the unit under test)
    rows,               \* the initial_data handed to run_cycle: sequence of data rows (id -> value)
    ctx,                \* DataContext._variables: id -> [current_value, dof_value, recommended_value]
    dynBounds,          \* DataContext._dynamic_bounds: id -> [min, max]
    solverCons,         \* DataContext._solver_constraints: sequence of constraint descriptors
    pc,                 \* position of the caller (construction, run_cycle, unit call)
    cursor,             \* run_cycle: <<task index, skill index>> of the next skill to execute
    executed,           \* run_cycle: the skill names whose execute() was entered, in order
    opt,                \* OptimizationSkill.execute: locals (optimizable_inputs, x0, bounds, constraints_to_pass, solver phase)
    calls,              \* the solver calls made so far by OptimizationSkill.execute
    error,              \* the exception that ended construction or the cycle (None: none)
    retval,             \* what the last query or solver callback returned
    svc                 \* OptimizationService: shutdown_event, position in run_continuous, cycle_count

vars == <<variables_config, skills_config, tasks_config, skills, rows, ctx, dynBounds,
          solverCons, pc, cursor, executed, opt, calls, error, retval, svc>>

----------------------------------------------------------------------------
(* Bounds of the model *)

MaxVal == 3          \* observed and candidate values range over 0..MaxVal
MaxEvals == 2        \* callbacks (objective / constraint evaluations) per solver call
MaxCycles == 4       \* cycles run_continuous starts
MaxGrid == 4         \* steps per axis of the grid the search solver tries

(* Program constants *)

DefaultThreshold == 1    \* optimizer.py: threshold = 1.0 when the variable has none
DefaultValue == 0        \* the 0.0 default used throughout
EwmAlphaTenths == 7      \* models.py: smoothing alpha 0.7 when the configuration has none
ScalerShift == 1         \* the scalers of the model: transform(v) = v - 1, inverse_transform(v) = v + 1

----------------------------------------------------------------------------
(* Optional values and small helpers *)

None == <<>>
Some(v) == <<v>>
IsNone(o) == o = <<>>
Get(o) == o[1]
OrElse(o, d) == IF o = <<>> THEN d ELSE o[1]

Max2(a, b) == IF a >= b THEN a ELSE b
Min2(a, b) == IF a <= b THEN a ELSE b

Range(s) == {s[i] : i \in 1..Len(s)}

\* [e for e in s if e in S]
FilterIn(s, S) == SelectSeq(s, LAMBDA e : e \in S)

\* python truthiness of an optional number: None and 0.0 are falsy
Truthy(o) == o # <<>> /\ o[1] # 0

----------------------------------------------------------------------------
(* Value domains of the configurations and observations the model draws *)

Values == 0..MaxVal
Kinds == {"Operative", "Informative", "Calculated", "Delta", "Predicted", "Constraint", "CalculatedKPI"}

\* (min_hard_limit, max_hard_limit): ordinary, degenerate and inverted pairs
HardLimitChoices == Values \X Values
\* threshold: absent/None, zero, positive, negative
ThresholdChoices == {None, Some(0), Some(1), Some(2), Some(-1)}
\* observed value: missing (None), inside and outside 0..MaxVal
ObservedChoices == {None} \cup {Some(v) : v \in -1..(MaxVal + 1)}

VarCfg(type, hl, thr) ==
    [type |-> type, min_hard_limit |-> hl[1], max_hard_limit |-> hl[2], threshold |-> thr]

\* A Variable right after Variable(var_id, config): no value yet
NewVariable == [current_value |-> None, dof_value |-> None, recommended_value |-> None]

\* Variable.set_initial_value(value): the observation becomes the current and the working value
SetInitialValue(var, value) == [var EXCEPT !.current_value = value, !.dof_value = value]

NoSkills == <<>>
NoOpt == [phase |-> "idle"]
NoRet == [kind |-> "none"]
NoService == [loop |-> "off"]

----------------------------------------------------------------------------
(* BoundsBuilderSkill *)

\* (mutation of BoundsWindow: the ordering check and its fallback are left out)
BoundsWindow_NoFallback(cfg, var) ==
    LET threshold == IF Truthy(cfg.threshold) THEN Get(cfg.threshold) ELSE 0
        current == OrElse(var.current_value, 0)
    IN  [min |-> Max2(cfg.min_hard_limit, current - threshold),
         max |-> Min2(cfg.max_hard_limit, current + threshold)]

\* the window of one variable: [current - threshold, current + threshold] clamped to the
\* hard limits, or the hard limits (ordered) when that window is inverted
BoundsWindow(cfg, var) ==
    LET threshold == IF Truthy(cfg.threshold) THEN Get(cfg.threshold) ELSE 0
        current == OrElse(var.current_value, 0)
        mn == Max2(cfg.min_hard_limit, current - threshold)
        mx == Min2(cfg.max_hard_limit, current + threshold)
    IN  IF mn > mx
        THEN [min |-> Min2(cfg.min_hard_limit, cfg.max_hard_limit),
              max |-> Max2(cfg.min_hard_limit, cfg.max_hard_limit)]
        ELSE [min |-> mn, max |-> mx]

\* bounds_map built by execute: one entry per input that the context knows
BoundsMap(inputs) ==
    [v \in Range(inputs) \cap DOMAIN ctx |-> BoundsWindow(variables_config[v], ctx[v])]

\* BoundsBuilderSkill.execute(data_context), called on a skill instance
BoundsBuilderSkill_execute(name) ==
    /\ dynBounds' = BoundsMap(skills[name].inputs)
    /\ UNCHANGED <<variables_config, skills_config, tasks_config, skills, rows, ctx, solverCons>>

\* the unit: a BoundsBuilderSkill constructed directly and executed on a populated context
BoundsUnitInputs == {<<>>, <<"x">>, <<"x", "y">>, <<"y", "ghost", "x">>}

InitBounds ==
    /\ \E hl \in HardLimitChoices, thr \in ThresholdChoices, ythr \in {None, Some(1)} :
          variables_config = [v \in {"x", "y"} |->
              IF v = "x" THEN VarCfg("Operative", hl, thr)
                         ELSE VarCfg("Informative", <<1, MaxVal>>, ythr)]
    /\ skills_config = <<>>
    /\ tasks_config = <<>>
    /\ \E inputs \in BoundsUnitInputs :
          skills = [n \in {"bounds"} |-> [class |-> "BoundsBuilderSkill", inputs |-> inputs, outputs |-> <<>>]]
    /\ rows = <<>>
    /\ \E cx \in ObservedChoices, cy \in {None, Some(2)} :
          ctx = [v \in {"x", "y"} |->
              [current_value |-> IF v = "x" THEN cx ELSE cy,
               dof_value |-> IF v = "x" THEN cx ELSE cy,
               recommended_value |-> None]]
    /\ dynBounds \in {<<>>, [v \in {"y"} |-> [min |-> 0, max |-> 0]]}
    /\ solverCons = <<>>
    /\ pc = "unit"
    /\ cursor = <<1, 1>>
    /\ executed = <<>>
    /\ opt = NoOpt
    /\ calls = <<>>
    /\ error = None
    /\ retval = NoRet
    /\ svc = NoService

BoundsUnitExecute ==
    /\ pc = "unit"
    /\ BoundsBuilderSkill_execute("bounds")
    /\ pc' = "done"
    /\ executed' = Append(executed, "bounds")
    /\ UNCHANGED <<cursor, opt, calls, error, retval>>
    /\ UNCHANGED svc

NextBounds == BoundsUnitExecute

SpecBounds == InitBounds /\ [][NextBounds]_vars

\* C2: after BoundsBuilderSkill.execute every input that exists in the context has an
\* entry with min_hard_limit <= min <= max <= max_hard_limit (as the claim states it,
\* for any hard limits)
C2_Original ==
    pc = "done" =>
        \A v \in Range(skills["bounds"].inputs) \cap DOMAIN ctx :
            /\ v \in DOMAIN dynBounds
            /\ variables_config[v].min_hard_limit <= dynBounds[v].min
            /\ dynBounds[v].min <= dynBounds[v].max
            /\ dynBounds[v].max <= variables_config[v].max_hard_limit

\* C2 (amended): after BoundsBuilderSkill.execute the map holds exactly the inputs known
\* to the context, and each entry lies ordered between the smaller and the larger hard
\* limit: min(hard) <= min <= max <= max(hard); this is the claimed chain whenever
\* min_hard_limit <= max_hard_limit
C2_BoundsWithinHardLimits ==
    pc = "done" =>
        /\ DOMAIN dynBounds = Range(skills["bounds"].inputs) \cap DOMAIN ctx
        /\ \A v \in DOMAIN dynBounds :
            LET c == variables_config[v] IN
            /\ Min2(c.min_hard_limit, c.max_hard_limit) <= dynBounds[v].min
            /\ dynBounds[v].min <= dynBounds[v].max
            /\ dynBounds[v].max <= Max2(c.min_hard_limit, c.max_hard_limit)
            /\ (c.min_hard_limit <= c.max_hard_limit =>
                    /\ c.min_hard_limit <= dynBounds[v].min
                    /\ dynBounds[v].max <= c.max_hard_limit)

\* C2 witness: the window of x was inverted (observation outside the hard limits) and
\* the fallback to the hard limits was stored
C2_Witness ==
    /\ pc = "done"
    /\ "x" \in DOMAIN dynBounds
    /\ variables_config["x"].min_hard_limit < variables_config["x"].max_hard_limit
    /\ ctx["x"].current_value = Some(MaxVal + 1)
    /\ variables_config["x"].threshold = None
    /\ dynBounds["x"].min = variables_config["x"].min_hard_limit
    /\ dynBounds["x"].max = variables_config["x"].max_hard_limit

----------------------------------------------------------------------------
(* OptimizationStrategy: variable kinds and the optimizable set *)

PreCalcTaskName == "PreCalculateVariables"

\* get_operative_variable_ids / get_calculated_variable_ids (as sets: the callers only
\* test membership)
IdsOfKind(kind) == {v \in DOMAIN variables_config : variables_config[v].type = kind}

\* the task found by the loop "for task in tasks_config: if name == ...: break"
FirstPreCalcTask ==
    LET idx == {i \in 1..Len(tasks_config) : tasks_config[i].name = PreCalcTaskName}
    IN  IF idx = {} THEN None
        ELSE Some(tasks_config[CHOOSE i \in idx : \A j \in idx : i <= j])

get_fixed_input_variable_ids ==
    IF FirstPreCalcTask = None THEN {}
    ELSE UNION {Range(skills_config[n].inputs) :
                    n \in Range(Get(FirstPreCalcTask).skill_sequence) \cap DOMAIN skills_config}

get_optimizable_variable_ids ==
    LET calculated_ids == IdsOfKind("Calculated")
        fixed_input_ids == get_fixed_input_variable_ids
        all_operative_ids == IdsOfKind("Operative")
        remaining_operative_ids == all_operative_ids \ fixed_input_ids
    IN  calculated_ids \cup remaining_operative_ids

MathCfg(inputs, outputs, formula) ==
    [class |-> "MathFunction", inputs |-> inputs, outputs |-> outputs, formula |-> formula]

IdsKindChoices == {"Operative", "Informative", "Calculated"}
IdsInputChoices == {<<"a">>, <<"a", "b">>, <<"c", "b">>, <<>>}
IdsTaskChoices ==
    { <<[name |-> PreCalcTaskName, skill_sequence |-> <<"calc1", "calc2">>],
        [name |-> "Optimize", skill_sequence |-> <<"cost">>]>>,
      <<[name |-> "Optimize", skill_sequence |-> <<"calc1", "cost">>]>>,
      <<[name |-> "Prepare", skill_sequence |-> <<"calc2">>],
        [name |-> PreCalcTaskName, skill_sequence |-> <<"calc1", "unknown">>]>> }

InitIds ==
    /\ \E kinds \in [{"a", "b", "c", "d"} -> IdsKindChoices] :
          variables_config = [v \in {"a", "b", "c", "d"} |-> VarCfg(kinds[v], <<0, MaxVal>>, Some(1))]
    /\ \E in1 \in IdsInputChoices, in2 \in IdsInputChoices :
          skills_config = [n \in {"calc1", "calc2", "cost"} |->
              CASE n = "calc1" -> MathCfg(in1, <<"c">>, "sum")
                [] n = "calc2" -> MathCfg(in2, <<"d">>, "sum")
                [] OTHER -> MathCfg(<<"c", "d">>, <<"d">>, "sum")]
    /\ tasks_config \in IdsTaskChoices
    /\ skills = NoSkills
    /\ rows = <<>>
    /\ ctx = <<>>
    /\ dynBounds = <<>>
    /\ solverCons = <<>>
    /\ pc = "query"
    /\ cursor = <<1, 1>>
    /\ executed = <<>>
    /\ opt = NoOpt
    /\ calls = <<>>
    /\ error = None
    /\ retval = NoRet
    /\ svc = NoService

\* a caller asks the strategy for both id lists
QueryIds ==
    /\ pc = "query"
    /\ retval' = [kind |-> "ids", optimizable |-> get_optimizable_variable_ids,
                  fixed |-> get_fixed_input_variable_ids]
    /\ pc' = "done"
    /\ UNCHANGED <<variables_config, skills_config, tasks_config, skills, rows, ctx,
                   dynBounds, solverCons, cursor, executed, opt, calls, error>>
    /\ UNCHANGED svc

NextIds == QueryIds

SpecIds == InitIds /\ [][NextIds]_vars

\* the ids listed as inputs of any skill in the PreCalculateVariables task
PreCalcInputIds ==
    UNION {Range(skills_config[n].inputs) :
             n \in UNION {Range(tasks_config[i].skill_sequence) :
                            i \in {j \in 1..Len(tasks_config) : tasks_config[j].name = PreCalcTaskName}}
                   \cap DOMAIN skills_config}

\* C3: get_optimizable_variable_ids() = calculated_ids UNION (operative_ids MINUS inputs of
\* the pre-calculation skills), and it shares no id with get_fixed_input_variable_ids()
C3_Original ==
    pc = "done" =>
        /\ retval.optimizable =
              IdsOfKind("Calculated") \cup (IdsOfKind("Operative") \ PreCalcInputIds)
        /\ retval.optimizable \cap retval.fixed = {}

----------------------------------------------------------------------------
(* Skill instances and Strategy construction *)

\* the keys of OptimizationStrategy.SKILL_CLASS_MAP
SKILL_CLASS_MAP ==
    {"InferenceModel", "MathFunction", "Constraint", "CompositionSkill", "OptimizationSkill"}

OptCfg(inputs, cost_skill_name, cost_feature_name, algorithm, hard_constraints) ==
    [class |-> "OptimizationSkill", inputs |-> inputs, outputs |-> <<>>,
     cost_skill_name |-> cost_skill_name, cost_feature_name |-> cost_feature_name,
     algorithm |-> algorithm, hard_constraints |-> hard_constraints]

ConsCfg(inputs, template) ==
    [class |-> "Constraint", inputs |-> inputs, outputs |-> <<>>, template |-> template]

\* skill_class(name, config): the instance's fields after __init__
NewSkill(config) ==
    CASE config.class = "OptimizationSkill" ->
            [class |-> config.class, inputs |-> config.inputs, outputs |-> config.outputs,
             hard_constraints_cfg |-> config.hard_constraints,
             cost_skill_name |-> config.cost_skill_name,
             cost_feature_name |-> config.cost_feature_name,
             algorithm |-> config.algorithm,
             strategy |-> FALSE]
      [] config.class = "Constraint" ->
            [class |-> config.class, inputs |-> config.inputs, outputs |-> config.outputs,
             template |-> config.template, strategy |-> FALSE]
      [] config.class = "MathFunction" ->
            \* self.aeval = asteval.Interpreter(): the symbols execute() has bound so far
            [class |-> config.class, inputs |-> config.inputs, outputs |-> config.outputs,
             formula |-> config.formula, symtable |-> <<>>]
      [] OTHER -> config

\* first pass of _build_skills for one skill: construct, then set_strategy(self) on an
\* OptimizationSkill only
BuiltSkill(config) ==
    IF config.class = "OptimizationSkill"
    THEN [NewSkill(config) EXCEPT !.strategy = TRUE]
    ELSE NewSkill(config)

UnknownSkillClass == \E n \in DOMAIN skills_config : skills_config[n].class \notin SKILL_CLASS_MAP

\* OptimizationStrategy.__init__: config sections are taken over, then _build_skills
BuildSkills ==
    /\ pc = "new"
    /\ IF UnknownSkillClass
       THEN /\ pc' = "config_error"
            /\ error' = Some("ValueError")
            /\ UNCHANGED skills
       ELSE /\ skills' = [n \in DOMAIN skills_config |-> BuiltSkill(skills_config[n])]
            /\ pc' = "built"
            /\ UNCHANGED error
    /\ UNCHANGED <<variables_config, skills_config, tasks_config, rows, ctx, dynBounds,
                   solverCons, cursor, executed, opt, calls, retval>>
    /\ UNCHANGED svc

----------------------------------------------------------------------------
(* DataContext *)

DefaultedKinds == {"Delta", "Predicted", "Constraint", "CalculatedKPI", "Calculated"}

\* DataContext(variables_config) followed by populate_initial_data(records) for a
\* non-empty record list: the last row initialises the known variables, then the
\* variables that still have no current value get 0.0 if their kind is a derived one
PopulatedContext(records) ==
    LET last_row == records[Len(records)]
        assigned == [v \in DOMAIN variables_config |->
                        IF v \in DOMAIN last_row
                        THEN SetInitialValue(NewVariable, Some(last_row[v]))
                        ELSE NewVariable]
    IN  [v \in DOMAIN variables_config |->
            IF assigned[v].current_value = None /\ variables_config[v].type \in DefaultedKinds
            THEN [current_value |-> Some(DefaultValue), dof_value |-> Some(DefaultValue),
                  recommended_value |-> Some(DefaultValue)]
            ELSE assigned[v]]

----------------------------------------------------------------------------
(* MathFunction *)

RECURSIVE SumSeq(_)
SumSeq(s) == IF s = <<>> THEN 0 ELSE s[1] + SumSeq(Tail(s))

\* the formulas the configurations use, evaluated on the inputs' working values:
\*   "sum"   the sum of the inputs
\*   "dist"  (first input - 3)^2
\*   "scale" 5 * first input
\*   "dist70" (first - 70) ** 2
\*   "none"  an expression whose value is None
\*   "raise" an expression whose evaluation raises
\* the result is [raised, value]
FormulaEval(formula, vals) ==
    CASE formula = "sum" -> [raised |-> FALSE, value |-> Some(SumSeq(vals))]
      [] formula = "dist" ->
            IF vals = <<>> THEN [raised |-> FALSE, value |-> None]
            ELSE [raised |-> FALSE, value |-> Some((vals[1] - 3) * (vals[1] - 3))]
      [] formula = "dist70" ->
            IF vals = <<>> THEN [raised |-> FALSE, value |-> None]
            ELSE [raised |-> FALSE, value |-> Some((vals[1] - 70) * (vals[1] - 70))]
      [] formula = "scale" ->
            IF vals = <<>> THEN [raised |-> FALSE, value |-> None]
            ELSE [raised |-> FALSE, value |-> Some(5 * vals[1])]
      [] formula = "none" -> [raised |-> FALSE, value |-> None]
      [] OTHER -> [raised |-> TRUE, value |-> None]

\* get_variable raises KeyError for an id the context does not hold
MathFunctionRaises(skill, c) ==
    \/ \E v \in Range(skill.inputs) : v \notin DOMAIN c
    \/ skill.outputs # <<>> /\ skill.outputs[1] \notin DOMAIN c

\* (mutation: the result of the evaluation is written as it is, None included)
MathFunctionApply_NoDefault(skill, c) ==
    LET vals == [i \in 1..Len(skill.inputs) |-> OrElse(c[skill.inputs[i]].dof_value, DefaultValue)]
        ev == FormulaEval(skill.formula, vals)
    IN  IF skill.outputs = <<>> THEN c
        ELSE [c EXCEPT ![skill.outputs[1]].dof_value = ev.value]

\* MathFunction.execute on context c (when it does not raise): the new context
MathFunctionApply(skill, c) ==
    LET vals == [i \in 1..Len(skill.inputs) |-> OrElse(c[skill.inputs[i]].dof_value, DefaultValue)]
        ev == FormulaEval(skill.formula, vals)
        result == IF ev.raised \/ ev.value = None THEN DefaultValue ELSE Get(ev.value)
    IN  IF skill.outputs = <<>> THEN c
        ELSE [c EXCEPT ![skill.outputs[1]].dof_value = Some(result)]

\* lines 35-52: the interpreter's symbol table after the inputs were bound (the name of
\* each input holds its working value; symbols of earlier calls stay)
SymbolsBound(skill, c) ==
    [s \in DOMAIN skill.symtable \cup Range(skill.inputs) |->
        IF s \in Range(skill.inputs) THEN OrElse(c[s].dof_value, DefaultValue)
        ELSE skill.symtable[s]]

\* (mutation: the formula is evaluated against the table the previous call left, before
\* the inputs of this call are bound)
EvalTable_BeforeBinding(skill, c) == skill.symtable

\* the symbol table the formula is evaluated against
EvalTable(skill, c) == SymbolsBound(skill, c)

\* aeval.eval(formula): the names the formula reads are looked up in the table; an unbound
\* name is an evaluation error
FormulaOnTable(skill, table) ==
    IF Range(skill.inputs) \subseteq DOMAIN table
    THEN FormulaEval(skill.formula, [i \in 1..Len(skill.inputs) |-> table[skill.inputs[i]]])
    ELSE [raised |-> TRUE, value |-> None]

\* MathFunction.execute with the interpreter state: the instance and the context after it
MathFunctionExecute(skill, c) ==
    LET ev == FormulaOnTable(skill, EvalTable(skill, c))
        result == IF ev.raised \/ ev.value = None THEN DefaultValue ELSE Get(ev.value)
    IN  [skill |-> [skill EXCEPT !.symtable = SymbolsBound(skill, c)],
         ctx |-> IF skill.outputs = <<>> THEN c
                 ELSE [c EXCEPT ![skill.outputs[1]].dof_value = Some(result)]]

\* skill.execute(context) for the skills that can serve as a cost skill
SkillRaises(name, c) ==
    \/ name \notin DOMAIN skills
    \/ /\ name \in DOMAIN skills
       /\ skills[name].class = "MathFunction"
       /\ MathFunctionRaises(skills[name], c)

SkillApply(name, c) ==
    IF skills[name].class = "MathFunction" THEN MathFunctionApply(skills[name], c) ELSE c

\* zip(ids, x): write the candidate into the working values
WriteDof(c, ids, x) ==
    [v \in DOMAIN c |->
        LET idx == {i \in 1..Min2(Len(ids), Len(x)) : ids[i] = v}
        IN  IF idx = {} THEN c[v]
            ELSE [c[v] EXCEPT !.dof_value = Some(x[CHOOSE i \in idx : \A j \in idx : j <= i])]]

----------------------------------------------------------------------------
(* Constraints (registered under the class name "Constraint") *)

RequiredKeys == {"predicted_var", "op_min", "op_max"}

Entry(keys, predicted_var, op_min, op_max) ==
    [keys |-> keys, predicted_var |-> predicted_var, op_min |-> op_min, op_max |-> op_max]

\* "not isinstance(self.template, list) or not self.template"
TemplateUnusable(template) == template = None \/ Get(template) = <<>>

TemplateMalformed(template) ==
    /\ ~TemplateUnusable(template)
    /\ \E i \in 1..Len(Get(template)) : ~(RequiredKeys \subseteq Get(template)[i].keys)

\* names of the OptimizationSkill instances, in registry order (the model's
\* configurations hold at most one)
OptimizerNames == {n \in DOMAIN skills : skills[n].class = "OptimizationSkill"}

\* the descriptors built from a valid template: one per entry, each closing over the
\* optimizer's optimizable inputs and its cost skill
BuiltConstraints(skill) ==
    IF skill.strategy /\ OptimizerNames # {}
    THEN LET o == skills[CHOOSE n \in OptimizerNames : TRUE]
             opt_inputs == FilterIn(o.inputs, get_optimizable_variable_ids)
         IN  [i \in 1..Len(Get(skill.template)) |->
                 [predicted_var |-> Get(skill.template)[i].predicted_var,
                  op_min |-> Get(skill.template)[i].op_min,
                  op_max |-> Get(skill.template)[i].op_max,
                  opt_inputs |-> opt_inputs,
                  cost_skill |-> o.cost_skill_name,
                  origin |-> "ConstraintSkill"]]
    ELSE <<>>

\* the function a descriptor holds (make_constraint_fun in constraints.py and, with the
\* same body, in optimizer.py), called with candidate x on context c
ConstraintFunRaises(d, c, x) ==
    \/ \E i \in 1..Min2(Len(d.opt_inputs), Len(x)) : d.opt_inputs[i] \notin DOMAIN c
    \/ SkillRaises(d.cost_skill, WriteDof(c, d.opt_inputs, x))
    \/ d.predicted_var \notin DOMAIN c

ConstraintFunContext(d, c, x) == SkillApply(d.cost_skill, WriteDof(c, d.opt_inputs, x))

\* (mutation: the prediction is read before the cost skill has refreshed it)
ConstraintFunValue_Stale(d, c, x) ==
    LET v == OrElse(WriteDof(c, d.opt_inputs, x)[d.predicted_var].dof_value, DefaultValue)
    IN  <<v - d.op_min, d.op_max - v>>

ConstraintFunValue(d, c, x) ==
    LET v == OrElse(ConstraintFunContext(d, c, x)[d.predicted_var].dof_value, DefaultValue)
    IN  <<v - d.op_min, d.op_max - v>>

----------------------------------------------------------------------------
(* OptimizationSkill.execute: set-up *)

NativeMethods == {"SLSQP", "COBYLA", "trust-constr", "COBYQA"}
GlobalMethods == {"differential_evolution", "shgo"}

OptimizableInputs(skill) == FilterIn(skill.inputs, get_optimizable_variable_ids)

\* lines 61-64: a missing current value becomes 0.0 (current and working value)
OptSetupContext(c, ids) ==
    [v \in DOMAIN c |->
        IF v \in Range(ids) /\ c[v].current_value = None
        THEN [c[v] EXCEPT !.current_value = Some(DefaultValue), !.dof_value = Some(DefaultValue)]
        ELSE c[v]]

\* the interval of one variable with the default threshold in place of the configured one
InlineBounds_DefaultThreshold(cfg, current) ==
    <<Max2(cfg.min_hard_limit, current - DefaultThreshold),
      Min2(cfg.max_hard_limit, current + DefaultThreshold)>>

\* lines 67-91: the interval of one variable, computed inline from threshold and hard limits
InlineBounds(cfg, current) ==
    LET threshold == IF cfg.threshold = None THEN DefaultThreshold ELSE Get(cfg.threshold)
        min_bound == Max2(cfg.min_hard_limit, current - threshold)
        max_bound == Min2(cfg.max_hard_limit, current + threshold)
    IN  IF min_bound > max_bound
        THEN IF cfg.min_hard_limit >= cfg.max_hard_limit
             THEN <<current - threshold, current + threshold>>
             ELSE <<cfg.min_hard_limit, cfg.max_hard_limit>>
        ELSE <<min_bound, max_bound>>

\* lines 99-136: the constraints the optimizer builds from its own hard_constraints
\* configuration (entries with a predicted_var, op_min and op_max)
ConstraintsToPass(skill, ids) ==
    LET usable == SelectSeq(skill.hard_constraints_cfg, LAMBDA e : RequiredKeys \subseteq e.keys)
    IN  [i \in 1..Len(usable) |->
            [predicted_var |-> usable[i].predicted_var,
             op_min |-> usable[i].op_min,
             op_max |-> usable[i].op_max,
             opt_inputs |-> ids,
             cost_skill |-> skill.cost_skill_name,
             origin |-> "hard_constraints"]]

SolverCall(method, x0, bounds, constraints, stage) ==
    [method |-> method, x0 |-> x0, bounds |-> bounds, constraints |-> constraints, stage |-> stage]

----------------------------------------------------------------------------
(* InferenceModel: execute and _predict_with_nn.
   The instance holds: inputs, outputs, lag_offset (id -> [variation, lag, offset]),
   smoothing (method), model (loaded or not), scaler (None or the ids it has a scaler for) *)

VarType(v) == variables_config[v].type

\* self.lag_offset.get(var_id, {}).get("variation")
Variation(skill, v) ==
    IF v \in DOMAIN skill.lag_offset THEN skill.lag_offset[v].variation ELSE "none"

Raised(e) == [raised |-> Some(e), value |-> None]
Value(o) == [raised |-> None, value |-> o]

\* var.dof_value - var.current_value: TypeError when one of them is None
DeltaValue(var) ==
    IF var.dof_value = None \/ var.current_value = None THEN Raised("TypeError")
    ELSE Value(Some(Get(var.dof_value) - Get(var.current_value)))

\* context.get_dataframe(): None until rows have been stored
Dataframe == IF rows = <<>> THEN None ELSE Some(rows)

\* seq[start:stop] with python's index rules
PySlice(seq, start, stop) ==
    LET n == Len(seq)
        norm(i) == IF i < 0 THEN Max2(n + i, 0) ELSE Min2(i, n)
    IN  SubSeq(seq, norm(start) + 1, norm(stop))

\* series.mean() and the last value of series.ewm(alpha, adjust=False).mean(), in
\* integer arithmetic
Mean(series) == SumSeq(series) \div Len(series)

RECURSIVE EwmLast(_)
EwmLast(series) ==
    IF Len(series) = 1 THEN series[1]
    ELSE ((10 - EwmAlphaTenths) * EwmLast(SubSeq(series, 1, Len(series) - 1))
            + EwmAlphaTenths * series[Len(series)]) \div 10

\* lines 160-183: the smoothed trailing window of an informative input
WindowValue(skill, v) ==
    LET cfg == IF v \in DOMAIN skill.lag_offset THEN skill.lag_offset[v]
               ELSE [variation |-> "none", lag |-> 0, offset |-> 0]
    IN  IF Dataframe = None THEN Raised("TypeError")
        ELSE IF \E i \in 1..Len(rows) : v \notin DOMAIN rows[i] THEN Raised("KeyError")
        ELSE LET column == [i \in 1..Len(rows) |-> rows[i][v]]
                 series_window == PySlice(column, -(cfg.lag + cfg.offset), -cfg.lag)
             IN  IF series_window = <<>> THEN Value(Some(0))
                 ELSE IF skill.smoothing = "ewm" THEN Value(Some(EwmLast(series_window)))
                 ELSE IF skill.smoothing = "mean" THEN Value(Some(Mean(series_window)))
                 ELSE Value(Some(0))

\* lines 144-183: the feature of one input, or the exception its computation raises
InputValue(skill, v, c) ==
    IF v \notin DOMAIN c THEN Raised("KeyError")
    ELSE CASE VarType(v) = "Delta" -> DeltaValue(c[v])
           [] VarType(v) \in {"Operative", "Calculated"} ->
                 IF Variation(skill, v) = "Increment" THEN DeltaValue(c[v])
                 ELSE IF Variation(skill, v) = "Absolute" THEN Value(c[v].dof_value)
                 ELSE Value(Some(0))
           [] VarType(v) = "Informative" ->
                 IF Variation(skill, v) = "Increment" THEN DeltaValue(c[v])
                 ELSE IF Variation(skill, v) = "Absolute" THEN WindowValue(skill, v)
                 ELSE Value(Some(0))
           [] OTHER -> Value(Some(0))

InputValues(skill, c) == [i \in 1..Len(skill.inputs) |-> InputValue(skill, skill.inputs[i], c)]

\* input_id.replace('delta_', '') for the ids of the model
ScalerId(id) == IF id = "delta_p" THEN "p" ELSE id

\* the network: a fixed function of the scaled features (here their sum plus one)
ModelOutput(scaled_inputs) == SumSeq(scaled_inputs) + 1

\* lines 204-226: forward scaling, the network, inverse scaling of its output
InverseScaledOutput(skill, values) ==
    LET scaled_inputs == [i \in 1..Len(values) |->
                             IF ScalerId(skill.inputs[i]) \in Get(skill.scaler)
                             THEN Get(values[i]) - ScalerShift ELSE Get(values[i])]
        diff_prediction == ModelOutput(scaled_inputs)
    IN  IF ScalerId(skill.outputs[1]) \in Get(skill.scaler)
        THEN diff_prediction + ScalerShift ELSE diff_prediction

\* lines 231-233: the final prediction
FinalPrediction(skill, values, c) ==
    OrElse(c[skill.outputs[1]].current_value, DefaultValue) + InverseScaledOutput(skill, values)

\* _predict_with_nn: 0.0 when a feature is None or anything inside raises
PredictWithNN(skill, values, c) ==
    IF \E i \in 1..Len(values) : values[i] = None THEN DefaultValue
    ELSE IF skill.outputs = <<>> \/ skill.outputs[1] \notin DOMAIN c THEN DefaultValue
    ELSE FinalPrediction(skill, values, c)

\* InferenceModel.execute: the exception it raises (the first one, in input order), or
\* the context after it
InferenceOutcome(skill, c) ==
    LET ins == InputValues(skill, c)
        bad == {i \in 1..Len(ins) : ins[i].raised # None}
        values == [i \in 1..Len(ins) |-> ins[i].value]
        result == IF skill.model /\ skill.scaler # None THEN PredictWithNN(skill, values, c)
                  ELSE DefaultValue
    IN  IF bad # {} THEN [raised |-> ins[CHOOSE i \in bad : \A j \in bad : i <= j].raised, ctx |-> c]
        ELSE IF skill.outputs = <<>> THEN [raised |-> Some("IndexError"), ctx |-> c]
        ELSE IF skill.outputs[1] \notin DOMAIN c THEN [raised |-> Some("KeyError"), ctx |-> c]
        ELSE [raised |-> None, ctx |-> [c EXCEPT ![skill.outputs[1]].dof_value = Some(result)]]

InferCfg(inputs, outputs, lag_offset, smoothing, model, scaler) ==
    [class |-> "InferenceModel", inputs |-> inputs, outputs |-> outputs,
     lag_offset |-> lag_offset, smoothing |-> smoothing, model |-> model, scaler |-> scaler]

LagCfg(variation, lag, offset) == [variation |-> variation, lag |-> lag, offset |-> offset]

----------------------------------------------------------------------------
(* OptimizationStrategy.run_cycle *)

cfgVars == <<variables_config, skills_config, tasks_config>>

CurTask == tasks_config[cursor[1]]
CurSkillName == CurTask.skill_sequence[cursor[2]]
NextCursor ==
    IF cursor[2] < Len(CurTask.skill_sequence)
    THEN <<cursor[1], cursor[2] + 1>>
    ELSE <<cursor[1] + 1, 0>>

Fail(e) == pc' = "failed" /\ error' = Some(e)

\* run_cycle, step 1: a fresh DataContext, populated from the rows
StartCycle ==
    /\ pc = "built"
    /\ IF rows = <<>>
       THEN /\ ctx' = [v \in DOMAIN variables_config |-> NewVariable]
            /\ Fail("ValueError")
       ELSE /\ ctx' = PopulatedContext(rows)
            /\ pc' = "running"
            /\ UNCHANGED error
    /\ dynBounds' = <<>>
    /\ solverCons' = <<>>
    /\ cursor' = <<1, 0>>
    /\ executed' = <<>>
    /\ calls' = <<>>
    /\ opt' = NoOpt
    /\ UNCHANGED <<cfgVars, skills, rows, retval>>
    /\ UNCHANGED svc

\* _mark_calculated_as_operative
MarkCalculated(c) ==
    [v \in DOMAIN c |->
        IF variables_config[v].type = "Calculated" /\ c[v].dof_value # None
        THEN [c[v] EXCEPT !.current_value = c[v].dof_value]
        ELSE c[v]]

\* the head of the loop over tasks_config
EnterTask ==
    /\ pc = "running"
    /\ cursor[2] = 0
    /\ cursor[1] <= Len(tasks_config)
    /\ ctx' = IF CurTask.name = PreCalcTaskName THEN MarkCalculated(ctx) ELSE ctx
    /\ cursor' = IF CurTask.skill_sequence = <<>> THEN <<cursor[1] + 1, 0>> ELSE <<cursor[1], 1>>
    /\ UNCHANGED <<cfgVars, skills, rows, dynBounds, solverCons, pc, executed, opt, calls,
                   error, retval>>
    /\ UNCHANGED svc

\* "return data_context"
ReturnCycle ==
    /\ pc = "running"
    /\ cursor = <<Len(tasks_config) + 1, 0>>
    /\ pc' = "returned"
    /\ UNCHANGED <<cfgVars, skills, rows, ctx, dynBounds, solverCons, cursor, executed, opt,
                   calls, error, retval>>
    /\ UNCHANGED svc

AtSkill == pc = "running" /\ cursor[2] >= 1

\* lines 234-238: in the pre-calculation task a MathFunction is constructed for the skill
\* and resolve_dataframe_formula(skill_name, data_context) is called on it; the method
\* takes one argument, so the call raises TypeError
PreCalcResolveRaises ==
    /\ CurTask.name = PreCalcTaskName
    /\ CurSkillName \in DOMAIN skills_config
    /\ skills_config[CurSkillName].class = "MathFunction"

StepResolveRaises ==
    /\ AtSkill
    /\ PreCalcResolveRaises
    /\ Fail("TypeError")
    /\ UNCHANGED <<cfgVars, skills, rows, ctx, dynBounds, solverCons, cursor, executed, opt,
                   calls, retval>>
    /\ UNCHANGED svc

\* "Skill ... not found"
StepMissingSkill ==
    /\ AtSkill
    /\ ~PreCalcResolveRaises
    /\ CurSkillName \notin DOMAIN skills
    /\ Fail("ValueError")
    /\ UNCHANGED <<cfgVars, skills, rows, ctx, dynBounds, solverCons, cursor, executed, opt,
                   calls, retval>>
    /\ UNCHANGED svc

Runnable(class) ==
    /\ AtSkill
    /\ ~PreCalcResolveRaises
    /\ CurSkillName \in DOMAIN skills
    /\ skills[CurSkillName].class = class

\* skill.execute for a MathFunction
StepMathFunction ==
    /\ Runnable("MathFunction")
    /\ executed' = Append(executed, CurSkillName)
    /\ IF MathFunctionRaises(skills[CurSkillName], ctx)
       THEN /\ Fail("KeyError")
            /\ UNCHANGED <<ctx, cursor>>
       ELSE /\ ctx' = MathFunctionApply(skills[CurSkillName], ctx)
            /\ cursor' = NextCursor
            /\ UNCHANGED <<pc, error>>
    /\ UNCHANGED <<cfgVars, skills, rows, dynBounds, solverCons, opt, calls, retval>>
    /\ UNCHANGED svc

\* Constraints.execute: what it stores, or that it raises ValueError
ConstraintsOutcome(skill) ==
    IF TemplateUnusable(skill.template)
    THEN [raised |-> FALSE, constraints |-> <<>>]
    ELSE IF TemplateMalformed(skill.template)
         THEN [raised |-> TRUE, constraints |-> <<>>]
         ELSE [raised |-> FALSE, constraints |-> BuiltConstraints(skill)]

StepConstraints ==
    /\ Runnable("Constraint")
    /\ executed' = Append(executed, CurSkillName)
    /\ LET out == ConstraintsOutcome(skills[CurSkillName])
       IN  IF out.raised
           THEN /\ Fail("ValueError")
                /\ UNCHANGED <<solverCons, cursor>>
           ELSE /\ solverCons' = out.constraints
                /\ cursor' = NextCursor
                /\ UNCHANGED <<pc, error>>
    /\ UNCHANGED <<cfgVars, skills, rows, ctx, dynBounds, opt, calls, retval>>
    /\ UNCHANGED svc

\* skill.execute for an InferenceModel
StepInferenceModel ==
    /\ Runnable("InferenceModel")
    /\ executed' = Append(executed, CurSkillName)
    /\ LET out == InferenceOutcome(skills[CurSkillName], ctx) IN
       IF out.raised # None
       THEN /\ Fail(Get(out.raised))
            /\ UNCHANGED <<ctx, cursor>>
       ELSE /\ ctx' = out.ctx
            /\ cursor' = NextCursor
            /\ UNCHANGED <<pc, error>>
    /\ UNCHANGED <<cfgVars, skills, rows, dynBounds, solverCons, opt, calls, retval>>
    /\ UNCHANGED svc

----------------------------------------------------------------------------
(* OptimizationSkill.execute: solver calls and result *)

\* the first solver call: every branch passes constraints_to_pass (the native branch
\* omits the argument when the list is empty, which is the same call)
FirstCall(method, x0, bounds, constraints_to_pass) ==
    SolverCall(method, x0, bounds, constraints_to_pass, "primary")

\* entry of execute up to the first solver call
OptBegin ==
    /\ Runnable("OptimizationSkill")
    /\ executed' = Append(executed, CurSkillName)
    /\ LET sk == skills[CurSkillName] IN
       IF ~sk.strategy
       THEN /\ Fail("RuntimeError")
            /\ UNCHANGED <<ctx, opt, calls>>
       ELSE IF sk.cost_skill_name \notin DOMAIN skills
       THEN /\ Fail("KeyError")
            /\ UNCHANGED <<ctx, opt, calls>>
       ELSE LET ids == OptimizableInputs(sk)
                c1 == OptSetupContext(ctx, ids)
                x0 == [i \in 1..Len(ids) |-> Get(c1[ids[i]].current_value)]
                bounds == [i \in 1..Len(ids) |-> InlineBounds(variables_config[ids[i]], x0[i])]
                cons == ConstraintsToPass(sk, ids)
            IN  /\ ctx' = c1
                /\ opt' = [phase |-> "solving", skill |-> CurSkillName,
                           optimizable_inputs |-> ids, x0 |-> x0, bounds |-> bounds,
                           constraints_to_pass |-> cons, method |-> sk.algorithm,
                           stage |-> "primary", evals |-> 0, result |-> None,
                           entry |-> ctx]
                /\ calls' = Append(calls, FirstCall(sk.algorithm, x0, bounds, cons))
                /\ pc' = "solver"
                /\ UNCHANGED error
    /\ UNCHANGED <<cfgVars, skills, rows, dynBounds, solverCons, cursor, retval>>
    /\ UNCHANGED svc

CurCall == calls[Len(calls)]
Candidates == [1..Len(opt.optimizable_inputs) -> Values]
OptSkill == skills[opt.skill]

\* an exception inside a solver call: caught only around the first call of a method that
\* is neither native nor global (then the bounds-only call follows), else it ends execute
AfterRaise(e) ==
    IF opt.stage = "primary" /\ opt.method \notin (NativeMethods \cup GlobalMethods)
    THEN /\ calls' = Append(calls, SolverCall(opt.method, opt.x0, opt.bounds, <<>>, "prelim"))
         /\ opt' = [opt EXCEPT !.stage = "prelim", !.evals = 0]
         /\ UNCHANGED <<pc, error>>
    ELSE /\ Fail(e)
         /\ opt' = [opt EXCEPT !.phase = "failed"]
         /\ UNCHANGED calls

\* objective(x), lines 40-52
ObjectiveRaises(x) ==
    \/ SkillRaises(OptSkill.cost_skill_name, WriteDof(ctx, opt.optimizable_inputs, x))
    \/ OptSkill.cost_feature_name \notin DOMAIN ctx

ObjectiveContext(x) ==
    LET c1 == WriteDof(ctx, opt.optimizable_inputs, x)
    IN  IF SkillRaises(OptSkill.cost_skill_name, c1) THEN c1
        ELSE SkillApply(OptSkill.cost_skill_name, c1)

ObjectiveValue(x) == OrElse(ObjectiveContext(x)[OptSkill.cost_feature_name].dof_value, DefaultValue)

\* the solver evaluates the objective at a candidate
SolverObjective ==
    /\ pc = "solver"
    /\ opt.evals < MaxEvals
    /\ \E x \in Candidates :
        /\ ctx' = ObjectiveContext(x)
        /\ IF ObjectiveRaises(x)
           THEN /\ AfterRaise("KeyError")
                /\ UNCHANGED retval
           ELSE /\ retval' = [kind |-> "objective", value |-> ObjectiveValue(x)]
                /\ opt' = [opt EXCEPT !.evals = @ + 1]
                /\ UNCHANGED <<pc, error, calls>>
    /\ UNCHANGED <<cfgVars, skills, rows, dynBounds, solverCons, cursor, executed>>
    /\ UNCHANGED svc

\* the solver evaluates one of the constraints passed with the current call
SolverConstraint ==
    /\ pc = "solver"
    /\ opt.evals < MaxEvals
    /\ \E i \in 1..Len(CurCall.constraints), x \in Candidates :
        LET d == CurCall.constraints[i] IN
        IF ConstraintFunRaises(d, ctx, x)
        THEN /\ ctx' = WriteDof(ctx, d.opt_inputs, x)
             /\ AfterRaise("KeyError")
             /\ UNCHANGED retval
        ELSE /\ ctx' = ConstraintFunContext(d, ctx, x)
             /\ retval' = [kind |-> "constraint", value |-> ConstraintFunValue(d, ctx, x)]
             /\ opt' = [opt EXCEPT !.evals = @ + 1]
             /\ UNCHANGED <<pc, error, calls>>
    /\ UNCHANGED <<cfgVars, skills, rows, dynBounds, solverCons, cursor, executed>>
    /\ UNCHANGED svc

\* the solver call itself raises (unknown method, rejected arguments, ...)
SolverRaise ==
    /\ pc = "solver"
    /\ AfterRaise("SolverError")
    /\ UNCHANGED <<cfgVars, skills, rows, ctx, dynBounds, solverCons, cursor, executed, retval>>
    /\ UNCHANGED svc

\* (mutation: only the working value is updated, the recommendation is not written)
StoreResult_DofOnly(c, ids, x) == WriteDof(c, ids, x)

\* lines 218-221: recommended_value and dof_value of each optimizable input
StoreResult(c, ids, x) ==
    [v \in DOMAIN c |->
        LET idx == {i \in 1..Min2(Len(ids), Len(x)) : ids[i] = v}
        IN  IF idx = {} THEN c[v]
            ELSE LET value == x[CHOOSE i \in idx : \A j \in idx : j <= i]
                 IN  [c[v] EXCEPT !.recommended_value = Some(value), !.dof_value = Some(value)]]

\* (mutation: the result is stored whatever the solver reports)
ResultAccepted_Always(result) == TRUE

\* "if result.success"
ResultAccepted(result) == result.success

\* the solver returns a result (it has evaluated the objective at least at its starting
\* point); execute goes on from there
SolverReturn ==
    /\ pc = "solver"
    /\ opt.evals >= 1
    /\ \E success \in BOOLEAN, xr \in Candidates :
        LET result == [success |-> success, x |-> xr] IN
        IF opt.stage = "prelim"
        THEN \* lines 206-210: refine with trust-constr and the constraints
             /\ calls' = Append(calls, SolverCall("trust-constr",
                                    IF success THEN xr ELSE opt.x0,
                                    opt.bounds, opt.constraints_to_pass, "refine"))
             /\ opt' = [opt EXCEPT !.stage = "refine", !.evals = 0]
             /\ UNCHANGED <<ctx, pc, cursor, error, retval>>
        ELSE IF ResultAccepted(result)
        THEN /\ ctx' = StoreResult(ctx, opt.optimizable_inputs, xr)
             /\ opt' = [opt EXCEPT !.phase = "stored", !.evals = 0, !.result = Some(result)]
             /\ pc' = "running"
             /\ cursor' = NextCursor
             /\ retval' = NoRet
             /\ UNCHANGED <<calls, error>>
        ELSE /\ Fail("RuntimeError")
             /\ opt' = [opt EXCEPT !.phase = "failed", !.evals = 0, !.result = Some(result)]
             /\ retval' = NoRet
             /\ UNCHANGED <<ctx, calls, cursor>>
    /\ UNCHANGED <<cfgVars, skills, rows, dynBounds, solverCons, executed>>
    /\ UNCHANGED svc

----------------------------------------------------------------------------
(* The strategies and input rows the cycle model draws *)

ValidEntry == Entry(RequiredKeys, "p", 10, 20)
SecondEntry == Entry(RequiredKeys, "cost", 0, 2)
BrokenEntry == Entry({"predicted_var", "op_min"}, "p", 10, 20)

\* template of the Constraint skill: absent, empty, valid (one and two entries), malformed
TemplateChoices ==
    {None, Some(<<>>), Some(<<ValidEntry>>), Some(<<ValidEntry, SecondEntry>>),
     Some(<<ValidEntry, BrokenEntry>>)}

\* hard_constraints of the optimizer: none, one usable entry, a usable and an unusable one
HardConstraintChoices == {<<>>, <<ValidEntry>>, <<BrokenEntry, SecondEntry>>}

AlgorithmChoices == {"SLSQP", "differential_evolution", "shgo", "L-BFGS-B"}

TaskChoices ==
    { <<[name |-> PreCalcTaskName, skill_sequence |-> <<"calc">>],
        [name |-> "Optimize", skill_sequence |-> <<"cons", "opt", "post">>]>>,
      <<[name |-> "Prepare", skill_sequence |-> <<"calc">>],
        [name |-> "Optimize", skill_sequence |-> <<"cons", "opt", "post", "ghost">>]>>,
      <<[name |-> PreCalcTaskName, skill_sequence |-> <<"cons">>],
        [name |-> "Optimize", skill_sequence |-> <<"opt", "post">>]>> }

Scenario(hl, thr, xobs, ykind, algorithm, hc, template, costOut, tasks) ==
    [hl |-> hl, thr |-> thr, xobs |-> xobs, ykind |-> ykind, algorithm |-> algorithm,
     hc |-> hc, template |-> template, costOut |-> costOut, tasks |-> tasks,
     costFeature |-> "cost",
     costFormula |-> IF costOut = "p" THEN "scale" ELSE "dist",
     postFormula |-> "sum",
     postClass |-> "MathFunction",
     calcClass |-> "MathFunction",
     calcModel |-> FALSE]

\* strategies that vary the variable x (limits, threshold, observation) ...
BoundsScenarios ==
    {Scenario(hl, thr, xobs, "Informative", "SLSQP", <<>>, None, "cost", tasks) :
        hl \in {<<0, MaxVal>>, <<0, 1>>, <<1, 1>>, <<MaxVal, 1>>},
        thr \in {None, Some(1), Some(-1)},
        xobs \in {None, Some(2), Some(MaxVal + 1)},
        tasks \in TaskChoices}

\* ... strategies that vary the algorithm and the optimizer's hard constraints ...
AlgorithmScenarios ==
    {Scenario(<<0, MaxVal>>, Some(1), Some(2), "Informative", algorithm, hc, template, costOut, tasks) :
        algorithm \in AlgorithmChoices,
        hc \in HardConstraintChoices,
        template \in {None, Some(<<ValidEntry>>)},
        costOut \in {"cost", "p"},
        tasks \in TaskChoices}

\* ... and strategies with two operative variables that vary the constraint template
TemplateScenarios ==
    {Scenario(<<0, MaxVal>>, Some(1), Some(2), "Operative", "SLSQP", hc, template, costOut, tasks) :
        hc \in {<<>>, <<ValidEntry>>},
        template \in TemplateChoices,
        costOut \in {"cost", "p"},
        tasks \in TaskChoices}

\* ... and strategies whose optimizer names a cost feature that is not a variable
CostFeatureScenarios ==
    {[Scenario(<<0, MaxVal>>, Some(1), Some(2), "Informative", algorithm, <<>>, None, "cost", tasks)
         EXCEPT !.costFeature = "nocost"] :
        algorithm \in {"SLSQP", "L-BFGS-B"},
        tasks \in TaskChoices}

\* ... and strategies whose skill "post" declares another class: the bounds builder and a
\* class name that no skill has
ClassScenarios ==
    {[Scenario(<<0, MaxVal>>, Some(1), Some(2), "Informative", "SLSQP", <<>>, None, "cost", tasks)
         EXCEPT !.postClass = class] :
        class \in {"BoundsBuilderSkill", "NoSuchSkill"},
        tasks \in TaskChoices}

\* ... and strategies that vary the formula of the MathFunction "post": its value is a
\* number, None, or its evaluation raises
FormulaScenarios ==
    {[Scenario(<<0, MaxVal>>, Some(1), xobs, "Informative", "SLSQP", <<>>, None, "cost", tasks)
         EXCEPT !.postFormula = formula] :
        xobs \in {None, Some(2)},
        formula \in {"dist", "none", "raise"},
        tasks \in TaskChoices}

\* ... and strategies whose skill "calc" is an InferenceModel that predicts the calculated
\* variable c from y, with its model and scaler loaded or not
ModelScenarios ==
    {[Scenario(<<0, MaxVal>>, Some(1), Some(2), "Informative", "SLSQP", <<>>, None, "cost", tasks)
         EXCEPT !.calcClass = "InferenceModel", !.calcModel = model] :
        model \in BOOLEAN,
        tasks \in TaskChoices}

Scenarios ==
    BoundsScenarios \cup AlgorithmScenarios \cup TemplateScenarios \cup CostFeatureScenarios
        \cup ClassScenarios \cup FormulaScenarios \cup ModelScenarios

ScenarioVariables(sc) ==
    [v \in {"x", "y", "c", "p", "cost"} |->
        CASE v = "x" -> VarCfg("Operative", sc.hl, sc.thr)
          [] v = "y" -> VarCfg(sc.ykind, <<0, MaxVal>>, Some(1))
          [] v = "c" -> VarCfg("Calculated", <<0, MaxVal>>, None)
          [] v = "p" -> VarCfg("Predicted", <<0, MaxVal>>, None)
          [] OTHER -> VarCfg("CalculatedKPI", <<0, MaxVal>>, None)]

ScenarioSkills(sc) ==
    [n \in {"calc", "costfn", "cons", "opt", "post"} |->
        CASE n = "calc" ->
                IF sc.calcClass = "InferenceModel"
                THEN InferCfg(<<"y">>, <<"c">>, [v \in {"y"} |-> LagCfg("Absolute", 1, 1)],
                              "mean", sc.calcModel, Some({"y", "c"}))
                ELSE MathCfg(<<"y">>, <<"c">>, "sum")
          [] n = "costfn" -> MathCfg(<<"x", "y">>, <<sc.costOut>>, sc.costFormula)
          [] n = "cons" -> ConsCfg(<<"y">>, sc.template)
          [] n = "opt" -> OptCfg(<<"p", "x", "y">>, "costfn", sc.costFeature, sc.algorithm, sc.hc)
          [] OTHER -> [MathCfg(<<"x", "y">>, <<"c">>, sc.postFormula) EXCEPT !.class = sc.postClass]]

ScenarioRow(sc) ==
    IF sc.xobs = None THEN [v \in {"y"} |-> 1]
    ELSE [v \in {"x", "y"} |-> IF v = "x" THEN Get(sc.xobs) ELSE 1]

Init ==
    /\ \E sc \in Scenarios :
        /\ variables_config = ScenarioVariables(sc)
        /\ skills_config = ScenarioSkills(sc)
        /\ tasks_config = sc.tasks
        /\ rows \in {<<ScenarioRow(sc)>>} \cup
                    (IF sc \in BoundsScenarios /\ sc.thr = None /\ sc.xobs = None THEN {<<>>} ELSE {})
    /\ skills = NoSkills
    /\ ctx = <<>>
    /\ dynBounds = <<>>
    /\ solverCons = <<>>
    /\ pc = "new"
    /\ cursor = <<1, 0>>
    /\ executed = <<>>
    /\ opt = NoOpt
    /\ calls = <<>>
    /\ error = None
    /\ retval = NoRet
    /\ svc = NoService

Next ==
    \/ BuildSkills
    \/ StartCycle
    \/ EnterTask
    \/ StepResolveRaises
    \/ StepMissingSkill
    \/ StepMathFunction
    \/ StepInferenceModel
    \/ StepConstraints
    \/ OptBegin
    \/ SolverObjective
    \/ SolverConstraint
    \/ SolverRaise
    \/ SolverReturn
    \/ ReturnCycle

Spec == Init /\ [][Next]_vars

----------------------------------------------------------------------------
(* The cycle with the Constraints.set_strategy hook used by a caller, and the stored
   constraint functions called on the returned context *)

\* Constraints.set_strategy(strategy), called by the owner of the strategy after
\* construction (the constructor itself does not call it)
SetStrategyHook ==
    /\ pc = "built"
    /\ \E n \in DOMAIN skills :
        /\ skills[n].class = "Constraint"
        /\ ~skills[n].strategy
        /\ skills' = [skills EXCEPT ![n].strategy = TRUE]
    /\ UNCHANGED <<cfgVars, rows, ctx, dynBounds, solverCons, pc, cursor, executed, opt,
                   calls, error, retval>>
    /\ UNCHANGED svc

\* fun(x) of a descriptor stored in the context, called with a candidate vector
CallStoredConstraint ==
    /\ pc = "returned"
    /\ error = None
    /\ retval.kind = "constraint_call" => retval.n < MaxEvals
    /\ \E i \in 1..Len(solverCons) :
        \E x \in [1..Len(solverCons[i].opt_inputs) -> Values] :
            LET d == solverCons[i] IN
            IF ConstraintFunRaises(d, ctx, x)
            THEN /\ ctx' = WriteDof(ctx, d.opt_inputs, x)
                 /\ error' = Some("KeyError")
                 /\ UNCHANGED retval
            ELSE /\ ctx' = ConstraintFunContext(d, ctx, x)
                 /\ retval' = [kind |-> "constraint_call", index |-> i, x |-> x,
                               value |-> ConstraintFunValue(d, ctx, x),
                               n |-> IF retval.kind = "constraint_call" THEN retval.n + 1 ELSE 1]
                 /\ UNCHANGED error
    /\ UNCHANGED <<cfgVars, skills, rows, dynBounds, solverCons, pc, cursor, executed, opt, calls>>
    /\ UNCHANGED svc

NextHook == Next \/ SetStrategyHook \/ CallStoredConstraint

SpecHook == Init /\ [][NextHook]_vars

----------------------------------------------------------------------------
(* run_cycle called twice on one strategy, with a solver that is a function of its
   arguments: it evaluates the objective at x0 and then at every grid point inside the
   bounds in a fixed order, and reports the first point with the least objective value *)

\* the points of one axis the solver tries, in ascending order: every integer of
\* [lo, hi] when there are at most MaxGrid + 1 of them, else MaxGrid + 1 points spread
\* evenly from lo to hi
AxisPoints(lo, hi) ==
    IF lo > hi THEN <<>>
    ELSE IF hi - lo <= MaxGrid THEN [k \in 1..(hi - lo + 1) |-> lo + k - 1]
    ELSE [k \in 1..(MaxGrid + 1) |-> lo + (((k - 1) * (hi - lo)) \div MaxGrid)]

\* the points <<w>> \o r for w over the axis points of [v, hi] in turn and, for each w,
\* r over rest in turn
GridFrom(v, hi, rest) ==
    LET axis == AxisPoints(v, hi)
    IN  [k \in 1..(Len(axis) * Len(rest)) |->
            <<axis[((k - 1) \div Len(rest)) + 1]>> \o rest[((k - 1) % Len(rest)) + 1]]

RECURSIVE GridSeq(_)
GridSeq(bounds) ==
    IF bounds = <<>> THEN << <<>> >>
    ELSE GridFrom(bounds[1][1], bounds[1][2], GridSeq(Tail(bounds)))

\* objective(x) for each x of xs in turn, lines 40-52, on the context and the cost skill
\* instance the previous evaluation left; best is <<least value, its x>>
RECURSIVE Evaluate(_, _, _, _)
Evaluate(st, ids, feature, xs) ==
    IF xs = <<>> THEN st
    ELSE LET r == MathFunctionExecute(st.cost, WriteDof(st.ctx, ids, xs[1]))
             value == OrElse(r.ctx[feature].dof_value, DefaultValue)
         IN  Evaluate([ctx |-> r.ctx, cost |-> r.skill,
                       best |-> IF st.best = None \/ value < st.best[1]
                                THEN <<value, xs[1]>> ELSE st.best],
                      ids, feature, Tail(xs))

\* skill.execute for a MathFunction, with the interpreter state it keeps
StepMathFunctionKeep ==
    /\ Runnable("MathFunction")
    /\ executed' = Append(executed, CurSkillName)
    /\ IF MathFunctionRaises(skills[CurSkillName], ctx)
       THEN /\ Fail("KeyError")
            /\ UNCHANGED <<ctx, cursor, skills>>
       ELSE LET r == MathFunctionExecute(skills[CurSkillName], ctx) IN
            /\ ctx' = r.ctx
            /\ skills' = [skills EXCEPT ![CurSkillName] = r.skill]
            /\ cursor' = NextCursor
            /\ UNCHANGED <<pc, error>>
    /\ UNCHANGED <<cfgVars, rows, dynBounds, solverCons, opt, calls, retval>>
    /\ UNCHANGED svc

\* OptimizationSkill.execute as one step, for an optimizer without hard constraints whose
\* cost skill is a MathFunction
OptimizeSearch ==
    /\ Runnable("OptimizationSkill")
    /\ executed' = Append(executed, CurSkillName)
    /\ LET sk == skills[CurSkillName] IN
       IF ~sk.strategy
       THEN /\ Fail("RuntimeError")
            /\ UNCHANGED <<ctx, opt, calls, skills, cursor>>
       ELSE LET ids == OptimizableInputs(sk)
                c1 == OptSetupContext(ctx, ids)
                x0 == [i \in 1..Len(ids) |-> Get(c1[ids[i]].current_value)]
                bounds == [i \in 1..Len(ids) |-> InlineBounds(variables_config[ids[i]], x0[i])]
                st == Evaluate([ctx |-> c1, cost |-> skills[sk.cost_skill_name], best |-> None],
                               ids, sk.cost_feature_name, <<x0>> \o GridSeq(bounds))
                result == [success |-> GridSeq(bounds) # <<>>, x |-> st.best[2]]
            IN  /\ calls' = Append(calls, FirstCall(sk.algorithm, x0, bounds, <<>>))
                /\ skills' = [skills EXCEPT ![sk.cost_skill_name] = st.cost]
                /\ opt' = [phase |-> IF ResultAccepted(result) THEN "stored" ELSE "failed",
                           skill |-> CurSkillName, optimizable_inputs |-> ids, x0 |-> x0,
                           bounds |-> bounds, constraints_to_pass |-> <<>>,
                           method |-> sk.algorithm, stage |-> "primary",
                           evals |-> 0, result |-> Some(result), entry |-> ctx]
                /\ IF ResultAccepted(result)
                   THEN /\ ctx' = StoreResult(st.ctx, ids, result.x)
                        /\ cursor' = NextCursor
                        /\ UNCHANGED <<pc, error>>
                   ELSE /\ ctx' = st.ctx
                        /\ Fail("RuntimeError")
                        /\ UNCHANGED cursor
    /\ UNCHANGED <<cfgVars, rows, dynBounds, solverCons, retval>>
    /\ UNCHANGED svc

\* the caller keeps what the first run_cycle gave and calls run_cycle again with the
\* same rows
RunAgain ==
    /\ pc \in {"returned", "failed"}
    /\ retval.kind # "cycles"
    /\ skills # NoSkills
    /\ retval' = [kind |-> "cycles", outcome |-> pc, error |-> error,
                  recommended |-> [v \in DOMAIN ctx |-> ctx[v].recommended_value],
                  symbols |-> skills["costfn"].symtable]
    /\ pc' = "built"
    /\ error' = None
    /\ UNCHANGED <<cfgVars, skills, rows, ctx, dynBounds, solverCons, cursor, executed, opt, calls>>
    /\ UNCHANGED svc

\* strategies for the repeated cycle: limits, threshold and observation of x, the kind of
\* y (one or two optimizable inputs) and the formula of the cost skill
TwiceScenarios ==
    {[Scenario(hl, thr, xobs, ykind, "SLSQP", <<>>, None, "cost", tasks)
         EXCEPT !.costFormula = formula] :
        hl \in {<<0, MaxVal>>, <<0, 1>>, <<MaxVal, 1>>},
        thr \in {None, Some(2)},
        xobs \in {None, Some(0), Some(2)},
        ykind \in {"Informative", "Operative"},
        formula \in {"dist", "sum", "raise"},
        tasks \in TaskChoices}

InitTwice ==
    /\ \E sc \in TwiceScenarios :
        /\ variables_config = ScenarioVariables(sc)
        /\ skills_config = ScenarioSkills(sc)
        /\ tasks_config = sc.tasks
        /\ rows = <<ScenarioRow(sc)>>
    /\ skills = NoSkills
    /\ ctx = <<>>
    /\ dynBounds = <<>>
    /\ solverCons = <<>>
    /\ pc = "new"
    /\ cursor = <<1, 0>>
    /\ executed = <<>>
    /\ opt = NoOpt
    /\ calls = <<>>
    /\ error = None
    /\ retval = NoRet
    /\ svc = NoService

NextTwice ==
    \/ BuildSkills
    \/ StartCycle
    \/ EnterTask
    \/ StepResolveRaises
    \/ StepMissingSkill
    \/ StepMathFunctionKeep
    \/ StepConstraints
    \/ OptimizeSearch
    \/ ReturnCycle
    \/ RunAgain

SpecTwice == InitTwice /\ [][NextTwice]_vars

----------------------------------------------------------------------------
(* The cycle on strategies on a percent scale: x between hard limits such as 0 and 100,
   a cost that is least at x = 70, a native algorithm, no constraints *)

ExampleScenarios ==
    {[Scenario(hl, thr, xobs, "Informative", algorithm, <<>>, None, "cost", tasks)
         EXCEPT !.costFormula = "dist70"] :
        hl \in {<<0, 100>>, <<45, 55>>},
        thr \in {Some(10), Some(5)},
        xobs \in {Some(50), Some(65)},
        algorithm \in {"SLSQP", "trust-constr"},
        tasks \in TaskChoices}

InitExample ==
    /\ \E sc \in ExampleScenarios :
        /\ variables_config = ScenarioVariables(sc)
        /\ skills_config = ScenarioSkills(sc)
        /\ tasks_config = sc.tasks
        /\ rows = <<ScenarioRow(sc)>>
    /\ skills = NoSkills
    /\ ctx = <<>>
    /\ dynBounds = <<>>
    /\ solverCons = <<>>
    /\ pc = "new"
    /\ cursor = <<1, 0>>
    /\ executed = <<>>
    /\ opt = NoOpt
    /\ calls = <<>>
    /\ error = None
    /\ retval = NoRet
    /\ svc = NoService

SpecExample == InitExample /\ [][NextTwice]_vars

----------------------------------------------------------------------------
(* The InferenceModel unit: one execute on an instance with a stored context *)

\* the rows of the dataframe of the unit: three observations of x
InferRows == <<[v \in {"x"} |-> 1], [v \in {"x"} |-> 3], [v \in {"x"} |-> 2]>>

InitInfer ==
    /\ \E xtype \in {"Delta", "Operative", "Informative", "Predicted"} :
          variables_config = [v \in {"x", "p", "delta_p"} |->
              VarCfg(IF v = "x" THEN xtype ELSE "Predicted", <<0, MaxVal>>, None)]
    /\ skills_config = <<>>
    /\ tasks_config = <<>>
    /\ \E xvar \in {"none", "Increment", "Absolute"}, pvar \in {"none", "Increment"},
          window \in {<<0, 2>>, <<1, 2>>}, smoothing \in {"mean", "ewm"},
          out \in {"p", "delta_p"}, model \in BOOLEAN,
          scaler \in {None, Some({}), Some({"x", "p"})} :
          skills = [n \in {"infer"} |->
              InferCfg(<<"x">>, <<out>>,
                       [v \in {"x", "p", "delta_p"} |->
                           IF v = "x" THEN LagCfg(xvar, window[1], window[2])
                           ELSE LagCfg(pvar, 0, 0)],
                       smoothing, model, scaler)]
    /\ rows \in {<<>>, InferRows}
    /\ \E xcur \in {None, Some(1)}, xdof \in {None, Some(1), Some(MaxVal)}, pcur \in {None, Some(2)} :
          ctx = [v \in {"x", "p", "delta_p"} |->
              IF v = "x" THEN [current_value |-> xcur, dof_value |-> xdof, recommended_value |-> None]
              ELSE [current_value |-> pcur, dof_value |-> pcur, recommended_value |-> None]]
    /\ dynBounds = <<>>
    /\ solverCons = <<>>
    /\ pc = "unit"
    /\ cursor = <<1, 1>>
    /\ executed = <<>>
    /\ opt = NoOpt
    /\ calls = <<>>
    /\ error = None
    /\ retval = NoRet
    /\ svc = NoService

\* skill.execute(context) on the unit
InferExecute ==
    /\ pc = "unit"
    /\ executed' = Append(executed, "infer")
    /\ LET out == InferenceOutcome(skills["infer"], ctx) IN
       /\ ctx' = out.ctx
       /\ error' = out.raised
       /\ pc' = IF out.raised = None THEN "done" ELSE "failed"
    /\ UNCHANGED <<cfgVars, skills, rows, dynBounds, solverCons, cursor, opt, calls, retval, svc>>

NextInfer == InferExecute

SpecInfer == InitInfer /\ [][NextInfer]_vars

----------------------------------------------------------------------------
(* OptimizationService.run_continuous in one thread, OptimizationActor.stop in another.
   svc.log records the events in the order they happen: "set" (shutdown_event.set()),
   "begin" (run_single_cycle is entered), "end" (it has returned), "critical" (an
   exception has reached the except clause of run_continuous).
   svc.loop is the position of the service thread: "test" (line 154), "call" (line 156),
   "cycle" (inside run_single_cycle, before the strategy is loaded), "loaded" (after line
   54), "wait" (lines 158-168), "finally" (line 176), "done" (run_continuous has returned) *)

\* the methods the class OptimizationStrategy defines
StrategyMethods ==
    {"_build_skills", "get_operative_variable_ids", "get_calculated_variable_ids",
     "get_informative_variable_ids", "get_delta_variable_ids", "get_predicted_variable_ids",
     "get_constraint_variable_ids", "get_optimizable_variable_ids",
     "get_fixed_input_variable_ids", "get_raw_vars_from_calculated_vars",
     "get_lag_offset_bounds", "run_cycle", "_mark_calculated_as_operative"}

\* the methods of the strategy that lines 58-62 call to collect the required variables
RequiredVarsCalls ==
    <<"get_operative_variable_ids", "get_informative_variable_ids",
      "get_row_vars_from_calculated_vars">>

\* the required variables a loaded strategy can give
RequiredChoices == {{}, {"x", "y"}}

\* a row of the process data table: a timestamp and one column per variable (None is NULL)
DbRow(timestamp, x, y) ==
    [timestamp |-> timestamp, data |-> [v \in {"x", "y"} |-> IF v = "x" THEN x ELSE y]]

\* what the table can hold in the window a cycle queries, oldest row first
DbChoices ==
    { <<>>,
      <<DbRow(1, Some(1), Some(1))>>,
      <<DbRow(1, Some(1), Some(1)), DbRow(2, Some(1), None)>>,
      <<DbRow(1, Some(1), None), DbRow(2, Some(1), Some(1))>>,
      <<DbRow(1, Some(1), None), DbRow(2, Some(1), None)>> }

\* DatabaseManager.get_latest_data: the rows of the window as records, or an exception
\* when the query fails or gives no row
get_latest_data(db, query_fails) ==
    IF query_fails \/ db = <<>> THEN [raised |-> TRUE, rows |-> <<>>]
    ELSE [raised |-> FALSE, rows |-> db]

\* lines 112-116: the required variables that have no value in latest_data
MissingVars(required_vars, latest_data) ==
    {v \in required_vars : v \notin DOMAIN latest_data \/ latest_data[v] = None}

\* run_single_cycle propagates the exception of the cycle to its caller, which ends in the
\* except clause of run_continuous
CycleReturns_Propagates(s, success, raised) ==
    IF raised # None
    THEN [s EXCEPT !.loop = "finally", !.raised = raised, !.log = Append(@, "critical")]
    ELSE [s EXCEPT !.loop = "wait", !.success = Some(success), !.raised = raised,
                   !.log = Append(@, "end")]

\* lines 142-146: run_single_cycle returns True, returns False, or has caught an exception
\* and returns False
CycleReturns(s, success, raised) ==
    [s EXCEPT !.loop = "wait", !.success = Some(IF raised # None THEN FALSE ELSE success),
              !.raised = raised, !.log = Append(@, "end")]

\* lines 58-142 of run_single_cycle on a loaded strategy: the service after the return
CycleOutcome(s, query_fails, run_cycle_raises, post_process_raises) ==
    IF \E i \in 1..Len(RequiredVarsCalls) : RequiredVarsCalls[i] \notin StrategyMethods
    THEN CycleReturns(s, FALSE, Some("AttributeError"))
    ELSE IF s.required_vars = {} THEN CycleReturns(s, FALSE, None)
    ELSE LET result == get_latest_data(s.db, query_fails) IN
         IF result.raised THEN CycleReturns(s, FALSE, Some("Exception"))
         ELSE IF result.rows = <<>> THEN CycleReturns(s, FALSE, None)
         ELSE LET latest_row == result.rows[Len(result.rows)]
                  missing_vars == MissingVars(s.required_vars, latest_row.data)
              IN  IF missing_vars # {} THEN CycleReturns(s, FALSE, None)
                  ELSE IF run_cycle_raises
                       THEN CycleReturns([s EXCEPT !.ran = TRUE], FALSE, Some("RunCycleError"))
                  ELSE IF post_process_raises
                       THEN CycleReturns([s EXCEPT !.ran = TRUE], FALSE, Some("PostProcessError"))
                  ELSE CycleReturns([s EXCEPT !.ran = TRUE, !.post_processed = TRUE,
                                              !.last_run_timestamp = Some(latest_row.timestamp)],
                                    TRUE, None)

InitService ==
    /\ variables_config = <<>>
    /\ skills_config = <<>>
    /\ tasks_config = <<>>
    /\ skills = NoSkills
    /\ rows = <<>>
    /\ ctx = <<>>
    /\ dynBounds = <<>>
    /\ solverCons = <<>>
    /\ pc = "service"
    /\ cursor = <<1, 0>>
    /\ executed = <<>>
    /\ opt = NoOpt
    /\ calls = <<>>
    /\ error = None
    /\ retval = NoRet
    /\ svc = [loop |-> "test", shutdown_event |-> FALSE, cycle_count |-> 0,
              success |-> None, log |-> <<>>, final_statistics |-> 0,
              strategies_built |-> 0, required_vars |-> {}, db |-> <<>>,
              ran |-> FALSE, post_processed |-> FALSE, raised |-> None,
              last_run_timestamp |-> None]

ServiceOnly ==
    UNCHANGED <<variables_config, skills_config, tasks_config, skills, rows, ctx, dynBounds,
                solverCons, pc, cursor, executed, opt, calls, error, retval>>

\* OptimizationActor.stop: shutdown_event.set(), at any moment
ActorStop ==
    /\ svc.loop \notin {"off", "done"}
    /\ ~svc.shutdown_event
    /\ svc' = [svc EXCEPT !.shutdown_event = TRUE, !.log = Append(@, "set")]
    /\ ServiceOnly

\* line 154: "while not self.shutdown_event.is_set()"; the model starts at most MaxCycles
\* cycles
LoopTest ==
    /\ svc.loop = "test"
    /\ svc.shutdown_event \/ svc.cycle_count < MaxCycles
    /\ svc' = [svc EXCEPT !.loop = IF svc.shutdown_event THEN "finally" ELSE "call"]
    /\ ServiceOnly

\* run_single_cycle is entered without counting the cycle
CycleBegin_NoCount ==
    /\ svc.loop = "call"
    /\ \E db \in DbChoices :
          svc' = [svc EXCEPT !.loop = "cycle", !.log = Append(@, "begin"),
                             !.db = db, !.ran = FALSE, !.post_processed = FALSE]
    /\ ServiceOnly

\* line 156: run_single_cycle is entered (line 45 counts the cycle); db is what the table
\* holds for this cycle
CycleBegin ==
    /\ svc.loop = "call"
    /\ \E db \in DbChoices :
          svc' = [svc EXCEPT !.loop = "cycle", !.cycle_count = @ + 1,
                             !.log = Append(@, "begin"),
                             !.db = db, !.ran = FALSE, !.post_processed = FALSE]
    /\ ServiceOnly

\* lines 52-54: a strategy is constructed from the stored configuration, or the
\* construction raises (the store cannot be read, the configuration is not usable)
CycleLoadStrategy ==
    /\ svc.loop = "cycle"
    /\ \/ \E required_vars \in RequiredChoices :
             svc' = [svc EXCEPT !.loop = "loaded", !.strategies_built = @ + 1,
                                !.required_vars = required_vars]
       \/ svc' = CycleReturns(svc, FALSE, Some("LoadError"))
    /\ ServiceOnly

\* lines 58-146: the rest of run_single_cycle, up to its return
CycleEnd ==
    /\ svc.loop = "loaded"
    /\ \E query_fails \in BOOLEAN, run_cycle_raises \in BOOLEAN, post_process_raises \in BOOLEAN :
          svc' = CycleOutcome(svc, query_fails, run_cycle_raises, post_process_raises)
    /\ ServiceOnly

\* the wait as a plain sleep: the loop test follows in every case
WaitReturn_PlainSleep ==
    /\ svc.loop = "wait"
    /\ svc' = [svc EXCEPT !.loop = "test"]
    /\ ServiceOnly

\* line 168: shutdown_event.wait(timeout=60) returns the flag: True ends the loop, False
\* (the minute has passed) goes back to the loop test
WaitReturn ==
    /\ svc.loop = "wait"
    /\ svc' = [svc EXCEPT !.loop = IF svc.shutdown_event THEN "finally" ELSE "test"]
    /\ ServiceOnly

\* lines 171-174: a statement of the loop outside run_single_cycle (lines 158-168) raises
CriticalError ==
    /\ svc.loop = "wait"
    /\ svc' = [svc EXCEPT !.loop = "finally", !.log = Append(@, "critical")]
    /\ ServiceOnly

\* lines 175-176: finally: _show_final_statistics()
ServiceFinally ==
    /\ svc.loop = "finally"
    /\ svc' = [svc EXCEPT !.loop = "done", !.final_statistics = @ + 1]
    /\ ServiceOnly

NextService ==
    \/ ActorStop
    \/ LoopTest
    \/ CycleBegin
    \/ CycleLoadStrategy
    \/ CycleEnd
    \/ WaitReturn
    \/ CriticalError
    \/ ServiceFinally

SpecService == InitService /\ [][NextService]_vars

\* the steps of the service thread: a running thread goes on, and the wait of line 168
\* returns after its timeout
ServiceThread ==
    LoopTest \/ CycleBegin \/ CycleLoadStrategy \/ CycleEnd \/ WaitReturn \/ ServiceFinally

SpecServiceFair == InitService /\ [][NextService]_vars /\ WF_vars(ServiceThread)

----------------------------------------------------------------------------
(* Properties *)

\* the optimizable set as the specification words it
SpecOptimizableIds == IdsOfKind("Calculated") \cup (IdsOfKind("Operative") \ PreCalcInputIds)

\* the optimizable inputs of a skill: its declared inputs that are optimizable, in declared order
SpecOptimizableInputs(name) == FilterIn(skills[name].inputs, SpecOptimizableIds)

\* C1: when an optimizable input has no entry in the dynamic-bounds map, execute fails
\* with a missing-bounds error and never reaches the solver; so whenever a solver call
\* has been made, every optimizable input has dynamic bounds
C1_Original ==
    calls # <<>> => \A v \in Range(SpecOptimizableInputs(opt.skill)) : v \in DOMAIN dynBounds

\* C4: when the solver reports success, execute sets recommended_value = dof_value = the
\* i-th component of the optimal vector for the i-th optimizable input, and the
\* recommended_value of every other variable is what it was when execute was entered
C4_RecommendationWritten ==
    [][ (pc = "solver" /\ pc' = "running") =>
            LET ids == SpecOptimizableInputs(opt.skill)
                result == Get(opt'.result)
            IN  /\ result.success
                /\ Len(result.x) = Len(ids)
                /\ \A i \in 1..Len(ids) :
                    /\ ctx'[ids[i]].recommended_value = Some(result.x[i])
                    /\ ctx'[ids[i]].dof_value = Some(result.x[i])
                /\ \A v \in DOMAIN ctx \ Range(ids) :
                    ctx'[v].recommended_value = opt.entry[v].recommended_value ]_vars

\* C4 witness: a two-component optimum (different components, different from the
\* starting point) has been written to x and y, and p kept its recommendation
C4_Witness ==
    /\ opt.phase = "stored"
    /\ opt.optimizable_inputs = <<"x", "y">>
    /\ Get(opt.result).x = <<3, 0>>
    /\ opt.x0 = <<2, 1>>
    /\ ctx["x"].recommended_value = Some(3)
    /\ ctx["y"].recommended_value = Some(0)
    /\ ctx["p"].recommended_value = Some(0)

\* C5: when the solver reports non-convergence, execute raises, the skill has changed no
\* recommended_value, the cycle ends failed and no skill after the optimizer is executed
C5_NonConvergenceFailsCycle ==
    /\ [][ (pc = "solver" /\ opt'.result # None /\ ~Get(opt'.result).success) =>
              /\ pc' = "failed"
              /\ error' = Some("RuntimeError")
              /\ \A v \in DOMAIN ctx : ctx'[v].recommended_value = opt.entry[v].recommended_value ]_vars
    /\ [][ pc = "failed" => (pc' = "failed" /\ Len(executed') <= Len(executed)) ]_vars
    /\ []( (opt.phase = "failed" /\ opt.result # None) =>
              (pc = "failed" /\ executed[Len(executed)] = opt.skill) )

\* C5 witness: the solver reported non-convergence after evaluating candidates, the cycle
\* is failed and the skill "post" listed after the optimizer has not run
C5_Witness ==
    /\ pc = "failed"
    /\ opt.phase = "failed"
    /\ opt.result # None
    /\ ~Get(opt.result).success
    /\ "post" \in Range(CurTask.skill_sequence)
    /\ executed[Len(executed)] = "opt"
    /\ ctx["x"].dof_value # ctx["x"].current_value

\* the interval lines 76-77 derive for the i-th input of a solver call, inverted
DerivedIntervalInverted(call, ids, i) ==
    LET cfg == variables_config[ids[i]]
        threshold == IF cfg.threshold = None THEN DefaultThreshold ELSE Get(cfg.threshold)
    IN  Max2(cfg.min_hard_limit, call.x0[i] - threshold)
            > Min2(cfg.max_hard_limit, call.x0[i] + threshold)

\* C6: the interval handed to the solver is never inverted, and a variable whose derived
\* interval is inverted makes the optimizer fail instead of calling the solver
C6_Original ==
    calls # <<>> =>
        \A i \in 1..Len(calls[1].bounds) :
            /\ calls[1].bounds[i][1] <= calls[1].bounds[i][2]
            /\ ~DerivedIntervalInverted(calls[1], opt.optimizable_inputs, i)

\* C7: a stored constraint function called with x (1) has written x into the working
\* values of the ordered optimizable inputs, (2) has run the cost skill on that context,
\* (3) returned [v - op_min, op_max - v] for the refreshed prediction v; with op_min = 10
\* and op_max = 20, v = 15 gives two non-negative components and v = 5 a negative first
C7_ConstraintFunction ==
    retval.kind = "constraint_call" =>
        LET d == solverCons[retval.index]
            ids == SpecOptimizableInputs(CHOOSE n \in OptimizerNames : TRUE)
            cost == skills[skills[CHOOSE n \in OptimizerNames : TRUE].cost_skill_name]
            v == Get(ctx[d.predicted_var].dof_value)
        IN  /\ Len(retval.x) = Len(ids)
            /\ \A i \in 1..Len(ids) :
                  ids[i] # cost.outputs[1] => ctx[ids[i]].dof_value = Some(retval.x[i])
            /\ ctx[cost.outputs[1]].dof_value =
                  FormulaEval(cost.formula,
                      [i \in 1..Len(cost.inputs) |-> Get(ctx[cost.inputs[i]].dof_value)]).value
            /\ retval.value = <<v - d.op_min, d.op_max - v>>
            /\ (d.op_min = 10 /\ d.op_max = 20 /\ v = 15) =>
                  (retval.value[1] >= 0 /\ retval.value[2] >= 0)
            /\ (d.op_min = 10 /\ d.op_max = 20 /\ v = 5) => retval.value[1] < 0

\* C7 witness: the function of the entry {p, 10, 20} was called at a candidate where the
\* cost skill predicts p = 5 (it was 15 before the call) and returned [-5, 15]
C7_Witness ==
    /\ retval.kind = "constraint_call"
    /\ retval.n = 2
    /\ solverCons[retval.index].predicted_var = "p"
    /\ retval.x[1] = 1
    /\ ctx["x"].dof_value = Some(1)
    /\ ctx["p"].dof_value = Some(5)
    /\ retval.value = <<-5, 15>>

\* the Constraint skill whose execute() was entered last
LastExecuted == executed[Len(executed)]
ConstraintsJustRan ==
    /\ executed # <<>>
    /\ LastExecuted \in DOMAIN skills
    /\ skills[LastExecuted].class = "Constraint"
    /\ pc \in {"running", "failed"}

\* C8: a malformed template is reported as an error, and an empty constraint list is
\* stored without error exactly when the template is absent or empty
C8_Original ==
    ConstraintsJustRan =>
        LET template == skills[LastExecuted].template IN
        /\ TemplateMalformed(template) => (pc = "failed" /\ error = Some("ValueError"))
        /\ (pc = "running" /\ solverCons = <<>>) <=> (template = None \/ template = Some(<<>>))

Content(d) == <<d.predicted_var, d.op_min, d.op_max>>
Contents(ds) == [i \in 1..Len(ds) |-> Content(ds[i])]

\* C9: the constraints passed to a constraint-capable solver are exactly the descriptors
\* the ConstraintSkill stored in the context earlier in the cycle
C9_Original ==
    \A k \in 1..Len(calls) :
        calls[k].method \in (NativeMethods \cup GlobalMethods) =>
            Contents(calls[k].constraints) = Contents(solverCons)

\* C10: for an algorithm that is neither native nor global the first solver call passes
\* no constraints, and constraints are passed only to a later refinement call
C10_Original ==
    (calls # <<>> /\ opt.method \notin (NativeMethods \cup GlobalMethods)) =>
        /\ calls[1].constraints = <<>>
        /\ \A k \in 1..Len(calls) : calls[k].constraints # <<>> => (k > 1 /\ calls[k].stage = "refine")

\* C11: when cost_feature_name names no variable of the context, an objective evaluation
\* returns 0.0 without raising, the cycle does not fail in the optimizer, and a
\* successful execute leaves the recommended values at the starting point
C11_Original ==
    (opt.phase # "idle" /\ skills[opt.skill].cost_feature_name \notin DOMAIN ctx) =>
        /\ ~(pc = "failed" /\ error = Some("KeyError"))
        /\ (pc = "solver" /\ retval.kind = "objective") => retval.value = DefaultValue
        /\ opt.phase = "stored" =>
              \A i \in 1..Len(opt.optimizable_inputs) :
                  ctx[opt.optimizable_inputs[i]].recommended_value = Some(opt.x0[i])

SpecSkillKinds ==
    {"MathFunction", "InferenceModel", "Constraint", "CompositionSkill", "OptimizationSkill",
     "BoundsBuilderSkill"}

\* C13: construction fails with a configuration error and no registry if and only if some
\* skill declares a class outside the six kinds; otherwise it registers one skill per
\* configured name
C13_Original ==
    pc # "new" =>
        IF \E n \in DOMAIN skills_config : skills_config[n].class \notin SpecSkillKinds
        THEN pc = "config_error" /\ error = Some("ValueError") /\ skills = NoSkills
        ELSE pc # "config_error" /\ DOMAIN skills = DOMAIN skills_config

\* C14: after construction every OptimizationSkill and every Constraint skill of the
\* registry holds the reference to its strategy, and a Constraint skill executed with a
\* valid template of n entries (an optimizer being registered) stores n descriptors
C14_Original ==
    /\ pc \notin {"new", "config_error"} =>
          \A n \in DOMAIN skills :
              skills[n].class \in {"OptimizationSkill", "Constraint"} => skills[n].strategy
    /\ (ConstraintsJustRan /\ pc = "running" /\ OptimizerNames # {}
          /\ ~TemplateUnusable(skills[LastExecuted].template)) =>
              Len(solverCons) = Len(Get(skills[LastExecuted].template))

\* the tasks' skill_sequence lists, concatenated in declared task order
RECURSIVE ConcatSequences(_)
ConcatSequences(tasks) ==
    IF tasks = <<>> THEN <<>> ELSE tasks[1].skill_sequence \o ConcatSequences(Tail(tasks))

\* C15: for a configuration whose tasks name registered skills only (a task named
\* PreCalculateVariables with MathFunction skills included), the skills executed are the
\* concatenation of the skill_sequence lists in order, each once: what has been executed
\* is always a prefix of it, run_cycle ends before the end only inside the execution of
\* a skill, and it returns when all of them have been executed
C15_Original ==
    LET all == ConcatSequences(tasks_config) IN
    (pc \in {"running", "solver", "failed", "returned"} /\ rows # <<>>
        /\ Range(all) \subseteq DOMAIN skills) =>
        /\ Len(executed) <= Len(all)
        /\ executed = SubSeq(all, 1, Len(executed))
        /\ pc = "returned" => executed = all
        /\ pc = "failed" => (executed # <<>> /\ cursor[2] >= 1 /\ LastExecuted = CurSkillName)

\* the context right after populate_initial_data, before the first task
JustPopulated == pc = "running" /\ cursor = <<1, 0>> /\ executed = <<>>

\* C16: after populate_initial_data with a non-empty record list, a variable named in the
\* last record holds that value as its initial value, and every other variable, whatever
\* its kind, has current_value = dof_value = recommended_value = 0.0
C16_Original ==
    JustPopulated =>
        \A v \in DOMAIN ctx :
            IF v \in DOMAIN rows[Len(rows)]
            THEN /\ ctx[v].current_value = Some(rows[Len(rows)][v])
                 /\ ctx[v].dof_value = Some(rows[Len(rows)][v])
            ELSE /\ ctx[v].current_value = Some(DefaultValue)
                 /\ ctx[v].dof_value = Some(DefaultValue)
                 /\ ctx[v].recommended_value = Some(DefaultValue)

\* the evaluation of a MathFunction's formula on the working values of context c fails
\* or gives None
FormulaGivesNoValue(skill, c) ==
    LET ev == FormulaEval(skill.formula,
                  [i \in 1..Len(skill.inputs) |-> OrElse(c[skill.inputs[i]].dof_value, DefaultValue)])
    IN  ev.raised \/ ev.value = None

\* C17: an execution of a MathFunction whose variables exist does not end the cycle; when
\* the evaluation of its formula fails or gives None it writes 0.0 into the dof_value of
\* its first output; and it changes no field of any variable except that dof_value
C17_FormulaFailureDefaults ==
    [][ (pc = "running" /\ cursor[2] >= 1 /\ executed' = Append(executed, CurSkillName)
            /\ CurSkillName \in DOMAIN skills /\ skills[CurSkillName].class = "MathFunction") =>
          LET sk == skills[CurSkillName] IN
          /\ pc' = "running"
          /\ error' = None
          /\ FormulaGivesNoValue(sk, ctx) => ctx'[sk.outputs[1]].dof_value = Some(DefaultValue)
          /\ \A v \in DOMAIN ctx :
                /\ ctx'[v].current_value = ctx[v].current_value
                /\ ctx'[v].recommended_value = ctx[v].recommended_value
                /\ v # sk.outputs[1] => ctx'[v].dof_value = ctx[v].dof_value ]_vars

\* C17 witness: "post", whose formula raises, was executed after the optimizer; the cycle
\* goes on and its output c (set by "calc" before) now holds 0.0
C17_Witness ==
    /\ pc = "running"
    /\ executed = <<"calc", "cons", "opt", "post">>
    /\ skills["post"].formula = "raise"
    /\ ctx["c"].dof_value = Some(DefaultValue)
    /\ ctx["x"].recommended_value # None

\* the unit's skill, its first output, and the features execute computes from the inputs
\* (execute changes none of the inputs)
InferSkill == skills["infer"]
InferOut == InferSkill.outputs[1]
InferExecuted == pc \in {"done", "failed"} /\ executed = <<"infer">>
ModelUsable == InferSkill.model /\ InferSkill.scaler # None
SomeInputValueMissing ==
    \E i \in 1..Len(InferSkill.inputs) :
        \/ ctx[InferSkill.inputs[i]].dof_value = None
        \/ ctx[InferSkill.inputs[i]].current_value = None

\* C18: when the model or the scaler is unavailable, or an input has a None candidate or
\* observed value (whatever the input's kind), execute does not raise and sets the
\* dof_value of its first output to 0.0
C18_Original ==
    (InferExecuted /\ (~ModelUsable \/ SomeInputValueMissing)) =>
        /\ pc = "done"
        /\ error = None
        /\ ctx[InferOut].dof_value = Some(DefaultValue)

\* an Increment-style output: the output is configured with variation Increment, or is a
\* delta_ quantity
IncrementStyleOutput == Variation(InferSkill, InferOut) = "Increment" \/ InferOut = "delta_p"

\* C19: with model and scaler available (and every feature present), the value written
\* is observed value of the output + inverse-scaled model output for an Increment-style
\* output, and the inverse-scaled model output alone otherwise
C19_Original ==
    (InferExecuted /\ pc = "done" /\ ModelUsable
        /\ \A i \in 1..Len(InferSkill.inputs) : InputValue(InferSkill, InferSkill.inputs[i], ctx).value # None) =>
        LET values == [i \in 1..Len(InferSkill.inputs) |-> InputValue(InferSkill, InferSkill.inputs[i], ctx).value]
            raw == InverseScaledOutput(InferSkill, values)
        IN  ctx[InferOut].dof_value =
                IF IncrementStyleOutput
                THEN Some(OrElse(ctx[InferOut].current_value, DefaultValue) + raw)
                ELSE Some(raw)

\* C20: in every interleaving of run_continuous with shutdown_event.set(), no
\* run_single_cycle begins after the event has been set, and a cycle that was running when
\* the event was set runs to completion (when the loop has ended every cycle begun has
\* ended)
C20_Original ==
    svc.loop # "off" =>
        /\ \A i \in 1..Len(svc.log), j \in 1..Len(svc.log) :
              (i < j /\ svc.log[i] = "set") => svc.log[j] # "begin"
        /\ svc.loop \in {"finally", "done"} =>
              Cardinality({i \in 1..Len(svc.log) : svc.log[i] = "begin"})
                  = Cardinality({i \in 1..Len(svc.log) : svc.log[i] = "end"})

InsideCycle == svc.loop \in {"cycle", "loaded"}

\* C21: an exception raised inside a cycle is contained: run_single_cycle returns (False
\* when an exception was raised) and the loop stands at the inter-cycle wait; from the
\* wait, when shutdown has not been requested, the loop goes to its test, from the test to
\* the call, and the call starts the next cycle
C21_ExceptionContained ==
    /\ [][(InsideCycle /\ svc'.loop \notin {"cycle", "loaded"}) =>
            /\ svc'.loop = "wait"
            /\ svc'.success # None
            /\ svc'.raised # None => svc'.success = Some(FALSE)]_vars
    /\ [][(svc.loop = "wait" /\ ~svc.shutdown_event /\ svc'.loop # "wait" /\ svc'.log = svc.log) =>
            svc'.loop = "test"]_vars
    /\ [][(svc.loop = "test" /\ ~svc.shutdown_event /\ svc'.loop # "test") =>
            svc'.loop = "call"]_vars
    /\ [][(svc.loop = "call" /\ svc'.loop # "call") => svc'.loop = "cycle"]_vars

\* a cycle has raised an exception, has returned False, and the next cycle has begun
C21_Witness ==
    /\ svc.loop = "cycle"
    /\ svc.cycle_count >= 2
    /\ svc.raised # None
    /\ svc.success = Some(FALSE)
    /\ ~svc.shutdown_event

\* a cycle on a loaded strategy with required variables has just returned
CycleJustReturned ==
    /\ svc.loop = "wait"
    /\ svc.success # None
    /\ svc.raised # Some("LoadError")
    /\ svc.required_vars # {}

AbsentFromEveryRow(v, db) == \A i \in 1..Len(db) : db[i].data[v] = None

\* C22: a cycle returns False without calling run_cycle exactly when no rows are returned
\* or some required variable is absent from every fetched row; a required variable that
\* is missing in some rows and present in another does not abort the cycle
C22_Original ==
    CycleJustReturned =>
        ((svc.success = Some(FALSE) /\ ~svc.ran)
            <=> (svc.db = <<>> \/ \E v \in svc.required_vars : AbsentFromEveryRow(v, svc.db)))

\* C23: one strategy is constructed once; no cycle constructs another one
C23_Original == svc.loop # "off" => svc.strategies_built <= 1

\* C25: once shutdown_event is set run_continuous returns; a wait that ends with the
\* event set leaves the loop at once; the final statistics are emitted exactly once on
\* every exit path, and not before the exit
C25_ShutdownEndsLoop ==
    /\ (svc.loop # "off" /\ svc.shutdown_event) ~> (svc.loop = "done")
    /\ [][(svc.loop = "wait" /\ svc.shutdown_event /\ svc'.loop # "wait") =>
            svc'.loop = "finally"]_vars
    /\ [](svc.loop = "done" => svc.final_statistics = 1)
    /\ [](svc.loop \notin {"off", "done"} => svc.final_statistics = 0)

\* shutdown was requested while a cycle was running or waiting, and run_continuous has
\* returned after the cycle
C25_Witness ==
    /\ svc.loop = "done"
    /\ svc.shutdown_event
    /\ svc.final_statistics = 1
    /\ Len(svc.log) >= 3
    /\ svc.log[Len(svc.log)] = "end"
    /\ svc.log[Len(svc.log) - 1] = "set"

SpecWindow(column, lag, offset) ==
    SubSeq(column, Len(column) - lag - offset + 1, Len(column) - lag)

\* C27: for an Informative input with Absolute variation and lag >= 0, offset >= 1,
\* lag + offset <= n, the feature is the smoothed value of the `offset` rows that end
\* `lag` rows before the newest row (for lag = 0 the newest `offset` rows); stated on the
\* prediction written from that feature
C27_Original ==
    (InferExecuted /\ pc = "done" /\ ModelUsable /\ Dataframe # None
        /\ VarType("x") = "Informative" /\ Variation(InferSkill, "x") = "Absolute") =>
        LET cfg == InferSkill.lag_offset["x"]
            window == SpecWindow([i \in 1..Len(rows) |-> rows[i]["x"]], cfg.lag, cfg.offset)
            smoothed == IF InferSkill.smoothing = "ewm" THEN EwmLast(window) ELSE Mean(window)
        IN  (cfg.lag >= 0 /\ cfg.offset >= 1 /\ cfg.lag + cfg.offset <= Len(rows)) =>
                /\ window # <<>>
                /\ ctx[InferOut].dof_value = Some(FinalPrediction(InferSkill, <<Some(smoothed)>>, ctx))

\* C28: the starting value given to the solver for each optimizable input lies inside the
\* interval given to the solver for it, also when the observed value is outside the
\* variable's hard limits
C28_Original ==
    \A k \in 1..Len(calls) :
        \A i \in 1..Len(calls[k].bounds) :
            (calls[k].stage = "primary") =>
                /\ calls[k].bounds[i][1] <= calls[k].x0[i]
                /\ calls[k].x0[i] <= calls[k].bounds[i][2]

\* C29: right after OptimizationSkill.execute has succeeded, the output of the cost skill
\* holds what the cost skill computes from the working values of its inputs, which for the
\* optimizable inputs are the recommended vector
C29_Original ==
    (opt.phase = "stored" /\ pc = "running" /\ LastExecuted = opt.skill) =>
        LET cost == skills[skills[opt.skill].cost_skill_name]
            vals == [i \in 1..Len(cost.inputs) |-> OrElse(ctx[cost.inputs[i]].dof_value, DefaultValue)]
        IN  /\ \A i \in 1..Len(opt.optimizable_inputs) :
                  ctx[opt.optimizable_inputs[i]].dof_value = ctx[opt.optimizable_inputs[i]].recommended_value
            /\ ctx[cost.outputs[1]].dof_value = Some(OrElse(FormulaEval(cost.formula, vals).value, DefaultValue))

\* the pre-calculation task has just finished: the cursor stands at the head of the task
\* that follows it
PreCalcJustFinished ==
    /\ pc = "running"
    /\ cursor[2] = 0
    /\ cursor[1] >= 2
    /\ tasks_config[cursor[1] - 1].name = PreCalcTaskName

\* C26: when the pre-calculation task has finished, the current_value of every Calculated
\* variable equals the dof_value the pre-calculation skills computed for it in this cycle
C26_Original ==
    PreCalcJustFinished =>
        \A v \in DOMAIN variables_config :
            variables_config[v].type = "Calculated" => ctx[v].current_value = ctx[v].dof_value

\* the strategy of the worked example: x Operative with hard limits [0, 100], threshold
\* 10 and observed value 50, cost (x_dof - 70)^2, no constraints, a constraint-native
\* algorithm
IsExample ==
    /\ variables_config["x"] = VarCfg("Operative", <<0, 100>>, Some(10))
    /\ rows # <<>> /\ "x" \in DOMAIN rows[Len(rows)] /\ rows[Len(rows)]["x"] = 50
    /\ skills_config["costfn"].formula = "dist70"
    /\ skills_config["opt"].algorithm \in NativeMethods
    /\ skills_config["opt"].hard_constraints = <<>>
    /\ skills_config["cons"].template = None

\* C24: in the worked example the solver is given the bounds [40, 60] for x and the
\* starting point 50, without constraints, and after a successful solve
\* recommended_value(x) = 60 and dof_value(x) = 60
C24_Example ==
    IsExample =>
        /\ \A k \in 1..Len(calls) :
              /\ calls[k].x0 = <<50>>
              /\ calls[k].bounds = << <<40, 60>> >>
              /\ calls[k].constraints = <<>>
        /\ opt.phase = "stored" =>
              /\ ctx["x"].recommended_value = Some(60)
              /\ ctx["x"].dof_value = Some(60)

C24_Witness ==
    /\ IsExample
    /\ opt.phase = "stored"
    /\ calls # <<>>
    /\ ctx["x"].recommended_value = Some(60)
    /\ pc = "returned"

====
